---- MODULE Spec2Model ----
(***************************************************************************)
(* Stake-and-steal: the raid/steal protocol and the stake ledger.          *)
(*                                                                         *)
(* The repository holds several snapshots of the contract.  Two of them    *)
(* are modelled here, each as its own specification over the same          *)
(* variables:                                                              *)
(*                                                                         *)
(*   Spec, SpecUnregister, SpecLedger : the full message protocol,         *)
(*        state_20260119132203.rs + contract_20260119132308.rs             *)
(*        + lib_20260119134827.rs                                          *)
(*        Spec           - the raid protocol between registered players    *)
(*        SpecUnregister - the raider's side, with unregistration          *)
(*        SpecLedger     - deposit, withdraw, claim of a staking player    *)
(*   SpecV2 : the later single-context contract,                           *)
(*        contract_20260121115127.rs + lib_20260121120819.rs               *)
(*                                                                         *)
(* Modelling conventions.                                                  *)
(*  - A chain's block height is an input of every handler (the runtime's   *)
(*    block_height()); it never decreases on one chain.  Heights are       *)
(*    multiples of BlockStep.                                              *)
(*  - SHA-256 is modelled as an injective function: the hash of a tuple is *)
(*    the tuple itself.                                                    *)
(*  - The roll of the victim-side RNG (first hash byte mod 100) is an      *)
(*    input drawn from Rolls.                                              *)
(*  - The mock encryption fields, names and wall-clock timestamps carry no *)
(*    control flow and are left out.                                       *)
(*  - A handler is an operator from the chain's state and the handler's    *)
(*    inputs to its outcome: the state it leaves, the OperationResponse it *)
(*    returns and the messages it sends.  The action of a handler applies  *)
(*    that outcome; the response is an output, not state.                  *)
(***************************************************************************)
EXTENDS Integers, Sequences, FiniteSets, Bags, TLC

VARIABLES state, registry, network, hist

vars == <<state, registry, network, hist>>

(***************************************************************************)
(* Program constants (lib_20260119134827.rs)                               *)
(***************************************************************************)
MAX_PLOTS_PER_PAGE == 5
MAX_PAGES_PER_PLAYER == 10
BASE_YIELD_RATE_BPS == 10
STEAL_SUCCESS_RATE == 30
STEAL_PERCENTAGE == 15
RAID_COOLDOWN_BLOCKS == 100
TARGET_LOCK_DURATION == 50
MIN_DEPOSIT == 100
YIELD_DIVISOR == 1000000
ATTACK_LOG_CAPACITY == 50

(***************************************************************************)
(* Bounds of the model                                                     *)
(***************************************************************************)
\* heights range over 0, BlockStep, ..., MaxTicks * BlockStep
MaxTicks == 1
\* request ids a player may allocate (request_counter is a u64)
MaxRequests == 3
\* messages in flight at any time
MaxInFlight == 2
\* deposits of half the initial balance a player may make in total
\* (stats.total_deposited is a u128 that only grows)
MaxDeposits == 3
\* steals a chain of the later snapshot may resolve or suffer
MaxSteals == 1
\* pages a player may own in the model (at most MAX_PAGES_PER_PLAYER)
MaxPages == 2
\* the initial liquid balance handed to instantiate
InitialBalance == 2000

BlockStep == RAID_COOLDOWN_BLOCKS
Heights == {k * BlockStep : k \in 0..MaxTicks}

\* the player chains and the registry chain
Players == {1, 2}
RegistryChain == CHOOSE c \in 0..Cardinality(Players) : c \notin Players
None == "None"
\* Option<ChainId>
NoChain == <<>>
SomeChain(c) == <<c>>

Min(a, b) == IF a < b THEN a ELSE b

(***************************************************************************)
(* lib.rs: plots, pages, configuration, statistics                         *)
(***************************************************************************)
\* LandPlot { id, is_active: false, ..Default::default() }
NewPlot(i) ==
    [id |-> i, is_active |-> FALSE, balance |-> 0, deposit_block |-> 0,
     last_claim_block |-> 0, pending_yield |-> 0, times_stolen |-> 0,
     is_protected |-> FALSE]

\* Page::new
Page_new(id, current_block) ==
    [id |-> id, is_unlocked |-> TRUE,
     plots |-> [i \in 0..(MAX_PLOTS_PER_PAGE - 1) |-> NewPlot(i)],
     created_at |-> current_block]

\* GameConfig::default
GameConfig_default ==
    [yield_rate_bps |-> BASE_YIELD_RATE_BPS,
     steal_success_rate |-> STEAL_SUCCESS_RATE,
     steal_percentage |-> STEAL_PERCENTAGE,
     raid_cooldown_blocks |-> RAID_COOLDOWN_BLOCKS,
     target_lock_duration |-> TARGET_LOCK_DURATION,
     min_deposit |-> MIN_DEPOSIT]

\* PlayerStats::default
PlayerStats_default ==
    [total_deposited |-> 0, total_withdrawn |-> 0, total_yield_earned |-> 0,
     total_stolen |-> 0, total_lost_to_theft |-> 0, successful_steals |-> 0,
     failed_steals |-> 0, times_been_robbed |-> 0, current_streak |-> 0,
     best_streak |-> 0]

\* u64::saturating_sub
saturating_sub(a, b) == IF a > b THEN a - b ELSE 0

\* u128::MAX, scaled to the 32-bit integers of the checker: the largest value
\* an amount can take
U128_MAX == 2^30 + (2^30 - 1)

\* u128::saturating_mul: the product, or u128::MAX when it does not fit
saturating_mul(a, b) ==
    IF a # 0 /\ b > U128_MAX \div a THEN U128_MAX ELSE a * b

\* LandPlot::calculate_yield without the test of is_active
calculate_yield_ungated(plot, current_block, yield_rate_bps) ==
    IF plot.balance = 0 THEN 0
    ELSE LET blocks_elapsed == saturating_sub(current_block, plot.last_claim_block)
         IN saturating_mul(saturating_mul(plot.balance, blocks_elapsed),
                           yield_rate_bps) \div YIELD_DIVISOR

\* LandPlot::calculate_yield
calculate_yield(plot, current_block, yield_rate_bps) ==
    IF ~plot.is_active \/ plot.balance = 0 THEN 0
    ELSE LET blocks_elapsed == saturating_sub(current_block, plot.last_claim_block)
         IN saturating_mul(saturating_mul(plot.balance, blocks_elapsed),
                           yield_rate_bps) \div YIELD_DIVISOR

\* StealCommitment::new that hashes the block as well
StealCommitment_new_dated(target_page, target_plot, nonce, block) ==
    <<"commit", target_page, target_plot, nonce, block>>

\* StealCommitment::new(..).commitment_hash: SHA-256 over (page, plot, nonce);
\* the block argument is not hashed
StealCommitment_new(target_page, target_plot, nonce, block) ==
    <<"commit", target_page, target_plot, nonce>>

\* StealCommitment::verify: the hash of (page, plot, nonce) is computed again
\* and compared with commitment_hash
StealCommitment_verify(commitment_hash, target_page, target_plot, nonce) ==
    LET hash == <<"commit", target_page, target_plot, nonce>>
    IN hash = commitment_hash

\* the attack seed of execute_steal: SHA-256 over (commitment, block, nonce)
AttackSeed(commitment, current_block, reveal_nonce) ==
    <<"seed", commitment, current_block, reveal_nonce>>

(***************************************************************************)
(* RaidState                                                               *)
(***************************************************************************)
Idle == [tag |-> "Idle"]
Searching(rid) == [tag |-> "Searching", request_id |-> rid]
Choosing(targets, exp) ==
    [tag |-> "Choosing", targets |-> targets, expires_at_block |-> exp]
Locked(target, commitment, at, exp) ==
    [tag |-> "Locked", target_chain |-> target, commitment |-> commitment,
     locked_at_block |-> at, expires_at_block |-> exp]
Executing(target, page, plot, at) ==
    [tag |-> "Executing", target_chain |-> target, target_page |-> page,
     target_plot |-> plot, started_at_block |-> at]
Cooldown(until) == [tag |-> "Cooldown", until_block |-> until]

(***************************************************************************)
(* Results of the fallible state methods: Ok(value) with the new state, or *)
(* Err(error) with the state as the method left it when it returned        *)
(***************************************************************************)
Ok(s, v) == [ok |-> TRUE, st |-> s, val |-> v, err |-> None]
Err(s, e) == [ok |-> FALSE, st |-> s, val |-> None, err |-> e]

(***************************************************************************)
(* state.rs (20260119132203): PlayerState and its methods.  A method takes *)
(* the PlayerState record s and returns Ok/Err with the state it leaves.   *)
(***************************************************************************)
\* PlayerState::initialize
PlayerState_initialize(is_registry, registry_chain_id, initial_balance) ==
    [is_registered |-> FALSE,
     available_balance |-> initial_balance,
     pages |-> <<>>,
     page_count |-> 0,
     raid_state |-> Idle,
     stats |-> PlayerStats_default,
     attack_log |-> <<>>,
     config |-> GameConfig_default,
     is_registry |-> is_registry,
     registry_chain_id |-> registry_chain_id,
     current_block |-> 0,
     request_counter |-> 0,
     pending_steals |-> <<>>,
     is_being_raided |-> FALSE]

\* PlayerState::update_block
update_block(s, block) == [s EXCEPT !.current_block = block]

\* MapView::insert on pages (keys are page ids 0, 1, ...; the map is kept as
\* a function on 0..n-1, which is what create_page_internal builds)
pages_insert(pages, id, page) ==
    [i \in (DOMAIN pages) \cup {id} |-> IF i = id THEN page ELSE pages[i]]

\* PlayerState::create_page_internal
create_page_internal(s) ==
    IF s.page_count >= MAX_PAGES_PER_PLAYER
    THEN Err(s, "Internal")
    ELSE Ok([s EXCEPT !.pages = pages_insert(s.pages, s.page_count,
                                             Page_new(s.page_count, s.current_block)),
                      !.page_count = s.page_count + 1],
            s.page_count)

\* PlayerState::register
register(s) ==
    IF s.is_registered THEN Err(s, "AlreadyRegistered")
    ELSE LET s1 == [s EXCEPT !.is_registered = TRUE]
             r == create_page_internal(s1)
         IN IF r.ok THEN Ok(r.st, None) ELSE r

\* PlayerState::create_page
create_page(s) ==
    IF ~s.is_registered THEN Err(s, "NotRegistered")
    ELSE create_page_internal(s)

\* Page::total_balance
total_balance(page) ==
    LET RECURSIVE sum(_)
        sum(i) == IF i < 0 THEN 0 ELSE page.plots[i].balance + sum(i - 1)
    IN sum(MAX_PLOTS_PER_PAGE - 1)

\* PlayerState::deposit
deposit(s, page_id, plot_id, amount) ==
    IF ~s.is_registered THEN Err(s, "NotRegistered")
    ELSE IF amount < s.config.min_deposit THEN Err(s, "InsufficientBalance")
    ELSE LET available == s.available_balance IN
    IF available < amount THEN Err(s, "InsufficientBalance")
    ELSE IF page_id \notin DOMAIN s.pages THEN Err(s, "InvalidPageId")
    ELSE LET page == s.pages[page_id] IN
    IF ~page.is_unlocked THEN Err(s, "PageNotUnlocked")
    ELSE IF plot_id >= MAX_PLOTS_PER_PAGE THEN Err(s, "InvalidPlotId")
    ELSE
      LET plot == page.plots[plot_id]
          current_block == s.current_block
          pending == IF plot.is_active /\ plot.balance > 0
                     THEN calculate_yield(plot, current_block, s.config.yield_rate_bps)
                     ELSE 0
          \* "Claim any pending yield first": stats and balance are written
          s1 == IF pending > 0
                THEN [s EXCEPT !.stats.total_yield_earned = @ + pending,
                               !.available_balance = available + pending]
                ELSE s
          plot1 == [plot EXCEPT !.is_active = TRUE,
                                !.balance = @ + amount,
                                !.deposit_block = current_block,
                                !.last_claim_block = current_block]
          page1 == [page EXCEPT !.plots[plot_id] = plot1]
          \* "Deduct from available balance": written from the value read
          \* before the yield was added
          s2 == [s1 EXCEPT !.pages = pages_insert(s1.pages, page_id, page1),
                           !.available_balance = available - amount,
                           !.stats.total_deposited = @ + amount]
      IN Ok(s2, plot1.balance)

\* PlayerState::withdraw without the deactivation of an emptied plot
withdraw_undeactivated(s, page_id, plot_id, amount) ==
    IF ~s.is_registered THEN Err(s, "NotRegistered")
    ELSE IF page_id \notin DOMAIN s.pages THEN Err(s, "InvalidPageId")
    ELSE LET page == s.pages[page_id] IN
    IF plot_id >= MAX_PLOTS_PER_PAGE THEN Err(s, "InvalidPlotId")
    ELSE LET plot == page.plots[plot_id] IN
    IF ~plot.is_active THEN Err(s, "PlotNotActive")
    ELSE IF plot.balance < amount THEN Err(s, "InsufficientBalance")
    ELSE
      LET current_block == s.current_block
          pending == calculate_yield(plot, current_block, s.config.yield_rate_bps)
          plot1 == [plot EXCEPT !.balance = @ - amount,
                                !.last_claim_block = current_block]
          page1 == [page EXCEPT !.plots[plot_id] = plot1]
      IN Ok([s EXCEPT !.pages = pages_insert(s.pages, page_id, page1),
                      !.available_balance = @ + amount + pending,
                      !.stats.total_withdrawn = @ + amount,
                      !.stats.total_yield_earned = @ + pending],
            amount)

\* PlayerState::withdraw
withdraw(s, page_id, plot_id, amount) ==
    IF ~s.is_registered THEN Err(s, "NotRegistered")
    ELSE IF page_id \notin DOMAIN s.pages THEN Err(s, "InvalidPageId")
    ELSE LET page == s.pages[page_id] IN
    IF plot_id >= MAX_PLOTS_PER_PAGE THEN Err(s, "InvalidPlotId")
    ELSE LET plot == page.plots[plot_id] IN
    IF ~plot.is_active THEN Err(s, "PlotNotActive")
    ELSE IF plot.balance < amount THEN Err(s, "InsufficientBalance")
    ELSE
      LET current_block == s.current_block
          pending == calculate_yield(plot, current_block, s.config.yield_rate_bps)
          plot1 == [plot EXCEPT !.balance = @ - amount,
                                !.last_claim_block = current_block]
          plot2 == IF plot1.balance = 0 THEN [plot1 EXCEPT !.is_active = FALSE]
                   ELSE plot1
          page1 == [page EXCEPT !.plots[plot_id] = plot2]
      IN Ok([s EXCEPT !.pages = pages_insert(s.pages, page_id, page1),
                      !.available_balance = @ + amount + pending,
                      !.stats.total_withdrawn = @ + amount,
                      !.stats.total_yield_earned = @ + pending],
            amount)

\* PlayerState::claim
claim(s, page_id, plot_id) ==
    IF ~s.is_registered THEN Err(s, "NotRegistered")
    ELSE IF page_id \notin DOMAIN s.pages THEN Err(s, "InvalidPageId")
    ELSE LET page == s.pages[page_id] IN
    IF plot_id >= MAX_PLOTS_PER_PAGE THEN Err(s, "InvalidPlotId")
    ELSE LET plot == page.plots[plot_id] IN
    IF ~plot.is_active THEN Err(s, "PlotNotActive")
    ELSE
      LET current_block == s.current_block
          yield_amount == calculate_yield(plot, current_block, s.config.yield_rate_bps)
          plot1 == [plot EXCEPT !.last_claim_block = current_block,
                                !.pending_yield = 0]
          page1 == [page EXCEPT !.plots[plot_id] = plot1]
      IN Ok([s EXCEPT !.pages = pages_insert(s.pages, page_id, page1),
                      !.available_balance = @ + yield_amount,
                      !.stats.total_yield_earned = @ + yield_amount],
            yield_amount)

\* the yield claim_all collects from one page
page_yield(page, current_block, rate) ==
    LET RECURSIVE sum(_)
        sum(i) == IF i < 0 THEN 0
                  ELSE (IF page.plots[i].is_active
                        THEN calculate_yield(page.plots[i], current_block, rate)
                        ELSE 0) + sum(i - 1)
    IN sum(MAX_PLOTS_PER_PAGE - 1)

\* claim_all that writes the pages back as it read them
page_unclaimed(page, current_block) == page

\* the page as claim_all writes it back
page_claimed(page, current_block) ==
    [page EXCEPT !.plots = [i \in DOMAIN page.plots |->
        IF page.plots[i].is_active
        THEN [page.plots[i] EXCEPT !.last_claim_block = current_block,
                                   !.pending_yield = 0]
        ELSE page.plots[i]]]

\* PlayerState::claim_all
claim_all(s) ==
    IF ~s.is_registered THEN Err(s, "NotRegistered")
    ELSE
      LET current_block == s.current_block
          rate == s.config.yield_rate_bps
          RECURSIVE total(_)
          total(page_id) ==
              IF page_id < 0 THEN 0
              ELSE (IF page_id \in DOMAIN s.pages
                    THEN page_yield(s.pages[page_id], current_block, rate)
                    ELSE 0) + total(page_id - 1)
          total_yield == total(s.page_count - 1)
      IN Ok([s EXCEPT !.pages = [i \in DOMAIN s.pages |->
                          IF i < s.page_count
                          THEN page_claimed(s.pages[i], current_block)
                          ELSE s.pages[i]],
                      !.available_balance = @ + total_yield,
                      !.stats.total_yield_earned = @ + total_yield],
            total_yield)

\* GameError::InCooldown(until_block)
InCooldown(until_block) == <<"InCooldown", until_block>>

\* start_find_targets that still refuses at current_block = until_block
start_find_targets_strict(s, count) ==
    IF ~s.is_registered THEN Err(s, "NotRegistered")
    ELSE IF s.raid_state.tag = "Cooldown" /\ s.current_block <= s.raid_state.until_block
    THEN Err(s, InCooldown(s.raid_state.until_block))
    ELSE IF s.raid_state.tag \notin {"Idle", "Cooldown"}
    THEN Err(s, "AlreadyRaiding")
    ELSE LET request_id == s.request_counter + 1
         IN Ok([s EXCEPT !.request_counter = request_id,
                         !.raid_state = Searching(request_id)],
               request_id)

\* start_find_targets without the rejection of a raid in progress
start_find_targets_unguarded(s, count) ==
    IF ~s.is_registered THEN Err(s, "NotRegistered")
    ELSE IF s.raid_state.tag = "Cooldown" /\ s.current_block < s.raid_state.until_block
    THEN Err(s, InCooldown(s.raid_state.until_block))
    ELSE LET request_id == s.request_counter + 1
         IN Ok([s EXCEPT !.request_counter = request_id,
                         !.raid_state = Searching(request_id)],
               request_id)

\* PlayerState::start_find_targets
start_find_targets(s, count) ==
    IF ~s.is_registered THEN Err(s, "NotRegistered")
    ELSE IF s.raid_state.tag = "Cooldown" /\ s.current_block < s.raid_state.until_block
    THEN Err(s, InCooldown(s.raid_state.until_block))
    ELSE IF s.raid_state.tag \notin {"Idle", "Cooldown"}
    THEN Err(s, "AlreadyRaiding")
    ELSE LET request_id == s.request_counter + 1
         IN Ok([s EXCEPT !.request_counter = request_id,
                         !.raid_state = Searching(request_id)],
               request_id)

\* PlayerState::receive_targets
receive_targets(s, targets, request_id) ==
    IF s.raid_state.tag = "Searching" /\ s.raid_state.request_id = request_id
    THEN Ok([s EXCEPT !.raid_state =
                Choosing(targets, s.current_block + s.config.target_lock_duration)],
            None)
    ELSE Err(s, "InvalidRaidState")

\* PlayerState::receive_targets of state.rs (20260119135058): _request_id
\* and the raid state are not read
receive_targets_20260119135058(s, targets, request_id) ==
    Ok([s EXCEPT !.raid_state = Choosing(targets, s.current_block + 50)], None)

\* targets.iter().any(|t| t.chain_id == target_chain)
target_in_list(targets, target_chain) ==
    \E i \in DOMAIN targets : targets[i].chain_id = target_chain

\* lock_target without the expiry of the Choosing state
lock_target_unexpiring(s, target_chain, commitment, own_chain) ==
    IF target_chain = own_chain THEN Err(s, "CannotStealFromSelf")
    ELSE IF s.raid_state.tag # "Choosing" THEN Err(s, "InvalidRaidState")
    ELSE IF ~target_in_list(s.raid_state.targets, target_chain)
    THEN Err(s, "Internal")
    ELSE LET lock_until == s.current_block + s.config.target_lock_duration
         IN Ok([s EXCEPT !.raid_state =
                    Locked(target_chain, commitment, s.current_block, lock_until)],
               lock_until)

\* PlayerState::lock_target
lock_target(s, target_chain, commitment, own_chain) ==
    IF target_chain = own_chain THEN Err(s, "CannotStealFromSelf")
    ELSE IF s.raid_state.tag # "Choosing" THEN Err(s, "InvalidRaidState")
    ELSE IF s.current_block >= s.raid_state.expires_at_block
    THEN Err([s EXCEPT !.raid_state = Idle], "TargetLockExpired")
    ELSE IF ~target_in_list(s.raid_state.targets, target_chain)
    THEN Err(s, "Internal")
    ELSE LET lock_until == s.current_block + s.config.target_lock_duration
         IN Ok([s EXCEPT !.raid_state =
                    Locked(target_chain, commitment, s.current_block, lock_until)],
               lock_until)

\* MapView::insert on pending_steals
pending_steals_insert(pending, request_id, entry) ==
    [i \in (DOMAIN pending) \cup {request_id} |->
        IF i = request_id THEN entry ELSE pending[i]]

\* execute_steal without the verification of the commitment
execute_steal_unverified(s, target_page, target_plot, reveal_nonce) ==
    IF s.raid_state.tag # "Locked" THEN Err(s, "InvalidRaidState")
    ELSE IF s.current_block >= s.raid_state.expires_at_block
    THEN Err([s EXCEPT !.raid_state = Idle], "TargetLockExpired")
    ELSE
      LET target_chain == s.raid_state.target_chain
          commitment == s.raid_state.commitment
          attack_seed == AttackSeed(commitment, s.current_block, reveal_nonce)
          request_id == s.request_counter + 1
          pending == [target_chain |-> target_chain,
                      target_page |-> target_page,
                      target_plot |-> target_plot,
                      started_at_block |-> s.current_block,
                      attack_seed |-> attack_seed]
      IN Ok([s EXCEPT !.raid_state = Executing(target_chain, target_page,
                                               target_plot, s.current_block),
                      !.request_counter = request_id,
                      !.pending_steals =
                          pending_steals_insert(@, request_id, pending)],
            [attack_seed |-> attack_seed, target_chain |-> target_chain])

\* execute_steal that leaves the raid state Locked after the attempt
execute_steal_repeatable(s, target_page, target_plot, reveal_nonce) ==
    IF s.raid_state.tag # "Locked" THEN Err(s, "InvalidRaidState")
    ELSE IF s.current_block >= s.raid_state.expires_at_block
    THEN Err([s EXCEPT !.raid_state = Idle], "TargetLockExpired")
    ELSE
      LET target_chain == s.raid_state.target_chain
          commitment == s.raid_state.commitment
          expected == StealCommitment_new(target_page, target_plot, reveal_nonce, 0)
      IN IF expected # commitment THEN Err(s, "InvalidCommitment")
         ELSE
           LET attack_seed == AttackSeed(commitment, s.current_block, reveal_nonce)
               request_id == s.request_counter + 1
           IN Ok([s EXCEPT !.request_counter = request_id],
                 [attack_seed |-> attack_seed, target_chain |-> target_chain])

\* PlayerState::execute_steal
execute_steal(s, target_page, target_plot, reveal_nonce) ==
    IF s.raid_state.tag # "Locked" THEN Err(s, "InvalidRaidState")
    ELSE IF s.current_block >= s.raid_state.expires_at_block
    THEN Err([s EXCEPT !.raid_state = Idle], "TargetLockExpired")
    ELSE
      LET target_chain == s.raid_state.target_chain
          commitment == s.raid_state.commitment
          expected == StealCommitment_new(target_page, target_plot, reveal_nonce, 0)
      IN IF expected # commitment THEN Err(s, "InvalidCommitment")
         ELSE
           LET attack_seed == AttackSeed(commitment, s.current_block, reveal_nonce)
               request_id == s.request_counter + 1
               pending == [target_chain |-> target_chain,
                           target_page |-> target_page,
                           target_plot |-> target_plot,
                           started_at_block |-> s.current_block,
                           attack_seed |-> attack_seed]
           IN Ok([s EXCEPT !.raid_state = Executing(target_chain, target_page,
                                                    target_plot, s.current_block),
                           !.request_counter = request_id,
                           !.pending_steals =
                               pending_steals_insert(@, request_id, pending)],
                 [attack_seed |-> attack_seed, target_chain |-> target_chain])

\* attack_log.push_back followed by the trim to the last 50 entries
attack_log_push(log, entry) ==
    LET pushed == Append(log, entry)
        RECURSIVE trim(_)
        trim(l) == IF Len(l) > ATTACK_LOG_CAPACITY THEN trim(Tail(l)) ELSE l
    IN trim(pushed)

\* process_steal_attempt that reports the stolen amount without deducting it
process_steal_attempt_undeducted(s, attacker_chain, target_page, target_plot, attack_seed, roll) ==
    IF target_page \notin DOMAIN s.pages THEN Err(s, "InvalidPageId")
    ELSE LET page == s.pages[target_page] IN
    IF target_plot >= MAX_PLOTS_PER_PAGE THEN Err(s, "InvalidPlotId")
    ELSE LET plot == page.plots[target_plot] IN
    IF ~plot.is_active \/ plot.balance = 0
    THEN Ok(s, [success |-> FALSE, amount |-> 0, rng_proof |-> <<>>])
    ELSE IF plot.is_protected THEN Err(s, "TargetProtected")
    ELSE
      LET success == roll < s.config.steal_success_rate
          steal_amount == (plot.balance * s.config.steal_percentage) \div 100
      IN Ok(s, [success |-> success,
                amount |-> IF success THEN steal_amount ELSE 0,
                rng_proof |-> <<>>])

\* PlayerState::process_steal_attempt; roll is rng_hash[0] % 100
process_steal_attempt(s, attacker_chain, target_page, target_plot, attack_seed, roll) ==
    IF target_page \notin DOMAIN s.pages THEN Err(s, "InvalidPageId")
    ELSE LET page == s.pages[target_page] IN
    IF target_plot >= MAX_PLOTS_PER_PAGE THEN Err(s, "InvalidPlotId")
    ELSE LET plot == page.plots[target_plot] IN
    IF ~plot.is_active \/ plot.balance = 0
    THEN Ok(s, [success |-> FALSE, amount |-> 0, rng_proof |-> <<>>])
    ELSE IF plot.is_protected THEN Err(s, "TargetProtected")
    ELSE
      LET rng_hash == <<"rng", attack_seed, plot.balance, target_page, target_plot>>
          success == roll < s.config.steal_success_rate
          steal_amount == (plot.balance * s.config.steal_percentage) \div 100
          amount_stolen == IF success THEN steal_amount ELSE 0
          plot1 == IF success
                   THEN [plot EXCEPT !.balance = @ - steal_amount,
                                     !.times_stolen = @ + 1]
                   ELSE plot
          s1 == IF success
                THEN [s EXCEPT !.stats.total_lost_to_theft = @ + steal_amount,
                               !.stats.times_been_robbed = @ + 1]
                ELSE s
          page1 == [page EXCEPT !.plots[target_plot] = plot1]
          log_entry == [timestamp |-> s.current_block,
                        other_chain |-> attacker_chain,
                        was_attacker |-> FALSE,
                        success |-> success,
                        amount |-> amount_stolen,
                        page_id |-> target_page,
                        plot_id |-> target_plot]
      IN Ok([s1 EXCEPT !.pages = pages_insert(s1.pages, target_page, page1),
                       !.attack_log = attack_log_push(@, log_entry)],
            [success |-> success, amount |-> amount_stolen, rng_proof |-> rng_hash])

\* PlayerState::process_steal_outcome.  The log entry is pushed without a trim.
process_steal_outcome(s, success, amount_stolen) ==
    IF s.raid_state.tag # "Executing" THEN Err(s, "InvalidRaidState")
    ELSE
      LET streak == s.stats.current_streak + 1
          stats1 == IF success
                    THEN [s.stats EXCEPT !.total_stolen = @ + amount_stolen,
                                         !.successful_steals = @ + 1,
                                         !.current_streak = streak,
                                         !.best_streak =
                                             IF streak > @ THEN streak ELSE @]
                    ELSE [s.stats EXCEPT !.failed_steals = @ + 1,
                                         !.current_streak = 0]
          log_entry == [timestamp |-> s.current_block,
                        other_chain |-> s.raid_state.target_chain,
                        was_attacker |-> TRUE,
                        success |-> success,
                        amount |-> amount_stolen,
                        page_id |-> s.raid_state.target_page,
                        plot_id |-> s.raid_state.target_plot]
      IN Ok([s EXCEPT !.stats = stats1,
                      !.available_balance =
                          IF success THEN @ + amount_stolen ELSE @,
                      !.attack_log = Append(@, log_entry),
                      !.raid_state =
                          Cooldown(s.current_block + s.config.raid_cooldown_blocks)],
            None)

\* PlayerState::cancel_raid
cancel_raid(s) ==
    IF s.raid_state.tag \in {"Idle", "Cooldown"} THEN Err(s, "NotRaiding")
    ELSE Ok([s EXCEPT !.raid_state =
                Cooldown(s.current_block + s.config.raid_cooldown_blocks * 2)],
            None)

(***************************************************************************)
(* state.rs (20260119132203): RegistryState                                *)
(***************************************************************************)
\* RegistryState::initialize (the views start empty)
RegistryState_initialize ==
    [is_registry |-> TRUE,
     players |-> <<>>,
     active_players |-> {},
     player_count |-> 0,
     players_in_raid |-> {}]

\* RegistryState::register_player without the test for an existing entry
register_player_unchecked(r, player_chain) ==
    LET entry == [chain_id |-> player_chain, is_active |-> TRUE,
                  activity_score |-> 0, page_count |-> 1]
    IN Ok([r EXCEPT !.players =
               [c \in (DOMAIN r.players) \cup {player_chain} |->
                   IF c = player_chain THEN entry ELSE r.players[c]],
                    !.active_players = @ \cup {player_chain},
                    !.player_count = @ + 1],
          None)

\* RegistryState::register_player
register_player(r, player_chain) ==
    IF player_chain \in DOMAIN r.players THEN Err(r, "AlreadyRegistered")
    ELSE LET entry == [chain_id |-> player_chain, is_active |-> TRUE,
                       activity_score |-> 0, page_count |-> 1]
         IN Ok([r EXCEPT !.players =
                    [c \in (DOMAIN r.players) \cup {player_chain} |->
                        IF c = player_chain THEN entry ELSE r.players[c]],
                         !.active_players = @ \cup {player_chain},
                         !.player_count = @ + 1],
               None)

\* RegistryState::unregister_player
unregister_player(r, player_chain) ==
    Ok([r EXCEPT !.players =
            [c \in (DOMAIN r.players) \ {player_chain} |-> r.players[c]],
                 !.active_players = @ \ {player_chain},
                 !.player_count = IF @ > 0 THEN @ - 1 ELSE @],
       None)

\* RegistryState::get_random_targets.  active_players.indices() yields the
\* keys in their stored (ascending) order; the scan stops once
\* targets.len() >= count, a test made after each push.
get_random_targets(r, requester, count, exclude) ==
    LET seen == {requester} \cup exclude
        top == Cardinality(Players)
        RECURSIVE scan(_, _)
        scan(chain_id, targets) ==
            IF chain_id > top THEN targets
            ELSE IF chain_id \notin r.active_players \/ chain_id \in seen
                    \/ chain_id \notin DOMAIN r.players
            THEN scan(chain_id + 1, targets)
            ELSE IF r.players[chain_id].is_active /\ chain_id \notin r.players_in_raid
            THEN LET pushed == Append(targets,
                        [chain_id |-> chain_id,
                         activity_score |-> r.players[chain_id].activity_score,
                         active_pages |-> r.players[chain_id].page_count,
                         last_active_block |-> 0,
                         is_being_raided |-> FALSE])
                 IN IF Len(pushed) >= count THEN pushed
                    ELSE scan(chain_id + 1, pushed)
            ELSE scan(chain_id + 1, targets)
    IN scan(0, <<>>)

(***************************************************************************)
(* Messages in flight.  `from` is the sending chain (the runtime's origin, *)
(* to which a bounce returns); `tracked` is with_tracking().               *)
(***************************************************************************)
Msg_RegisterPlayer(from, to, player_chain) ==
    [type |-> "RegisterPlayer", from |-> from, to |-> to, tracked |-> FALSE,
     player_chain |-> player_chain]
Msg_UnregisterPlayer(from, to, player_chain) ==
    [type |-> "UnregisterPlayer", from |-> from, to |-> to, tracked |-> FALSE,
     player_chain |-> player_chain]
Msg_RequestTargets(from, to, requester, count, request_id) ==
    [type |-> "RequestTargets", from |-> from, to |-> to, tracked |-> FALSE,
     requester |-> requester, count |-> count, exclude_chains |-> {},
     request_id |-> request_id]
Msg_TargetList(from, to, requester, targets, request_id) ==
    [type |-> "TargetList", from |-> from, to |-> to, tracked |-> FALSE,
     requester |-> requester, targets |-> targets, request_id |-> request_id]
Msg_StealAttempt(from, to, attacker_chain, target_page, target_plot, attack_seed) ==
    [type |-> "StealAttempt", from |-> from, to |-> to, tracked |-> TRUE,
     attacker_chain |-> attacker_chain, target_page |-> target_page,
     target_plot |-> target_plot, attack_seed |-> attack_seed]
Msg_StealOutcome(from, to, attacker_chain, success, amount_stolen, rng_proof) ==
    [type |-> "StealOutcome", from |-> from, to |-> to, tracked |-> FALSE,
     attacker_chain |-> attacker_chain, success |-> success,
     amount_stolen |-> amount_stolen, rng_proof |-> rng_proof]
Msg_StolenFunds(from, to, amount, original_page, original_plot) ==
    [type |-> "StolenFunds", from |-> from, to |-> to, tracked |-> FALSE,
     from_chain |-> from, amount |-> amount, original_page |-> original_page,
     original_plot |-> original_plot]

InFlight == BagToSet(network)

\* prepare_message(..).send_to(..) for each message of msgs, in order
send_all(net, msgs) ==
    LET RECURSIVE go(_, _)
        go(n, i) == IF i > Len(msgs) THEN n
                    ELSE go(n (+) SetToBag({msgs[i]}), i + 1)
    IN go(net, 1)

\* the runtime takes the message out of the inbox
receive(net, m) == net (-) SetToBag({m})

(***************************************************************************)
(* OperationResponse, and the outcome of a handler                         *)
(***************************************************************************)
NoResponse == [kind |-> "None"]
ErrorResponse(e) == [kind |-> "Error", message |-> e]
Success == [kind |-> "Success"]

Outcome(s, resp, msgs) == [st |-> s, resp |-> resp, msgs |-> msgs]

(***************************************************************************)
(* contract.rs (20260119132308): the operation handlers.  s is the chain's *)
(* PlayerState after execute_operation has run update_block; own is        *)
(* runtime.chain_id().                                                     *)
(***************************************************************************)
\* handle_register
handle_register(s, own) ==
    LET r == register(s)
    IN IF ~r.ok THEN Outcome(r.st, ErrorResponse(r.err), <<>>)
       ELSE IF r.st.registry_chain_id = NoChain /\ ~r.st.is_registry
       THEN Outcome(r.st, ErrorResponse("No registry configured"), <<>>)
       ELSE LET registry_chain == IF r.st.registry_chain_id = NoChain THEN own
                                  ELSE r.st.registry_chain_id[1]
            IN Outcome(r.st, [kind |-> "Registered", player_id |-> own],
                       <<Msg_RegisterPlayer(own, registry_chain, own)>>)

\* handle_unregister
handle_unregister(s, own) ==
    LET s1 == [s EXCEPT !.is_registered = FALSE]
    IN IF s1.registry_chain_id = NoChain THEN Outcome(s1, Success, <<>>)
       ELSE Outcome(s1, Success,
                    <<Msg_UnregisterPlayer(own, s1.registry_chain_id[1], own)>>)

\* handle_create_page
handle_create_page(s, own) ==
    LET r == create_page(s)
    IN IF r.ok THEN Outcome(r.st, [kind |-> "PageCreated", page_id |-> r.val], <<>>)
       ELSE Outcome(r.st, ErrorResponse(r.err), <<>>)

\* handle_deposit
handle_deposit(s, own, page_id, plot_id, amount) ==
    LET r == deposit(s, page_id, plot_id, amount)
    IN IF r.ok
       THEN Outcome(r.st, [kind |-> "Deposited", page_id |-> page_id,
                           plot_id |-> plot_id, new_balance |-> r.val], <<>>)
       ELSE Outcome(r.st, ErrorResponse(r.err), <<>>)

\* handle_withdraw that leaves total_withdrawn as it was
handle_withdraw_unrecorded(s, own, page_id, plot_id, amount) ==
    LET r == withdraw(s, page_id, plot_id, amount)
    IN IF r.ok
       THEN Outcome([r.st EXCEPT !.stats.total_withdrawn = s.stats.total_withdrawn],
                    [kind |-> "Withdrawn", page_id |-> page_id,
                     plot_id |-> plot_id, amount |-> r.val], <<>>)
       ELSE Outcome(r.st, ErrorResponse(r.err), <<>>)

\* handle_withdraw
handle_withdraw(s, own, page_id, plot_id, amount) ==
    LET r == withdraw(s, page_id, plot_id, amount)
    IN IF r.ok
       THEN Outcome(r.st, [kind |-> "Withdrawn", page_id |-> page_id,
                           plot_id |-> plot_id, amount |-> r.val], <<>>)
       ELSE Outcome(r.st, ErrorResponse(r.err), <<>>)

\* handle_claim
handle_claim(s, own, page_id, plot_id) ==
    LET r == claim(s, page_id, plot_id)
    IN IF r.ok
       THEN Outcome(r.st, [kind |-> "Claimed", page_id |-> page_id,
                           plot_id |-> plot_id, yield_amount |-> r.val], <<>>)
       ELSE Outcome(r.st, ErrorResponse(r.err), <<>>)

\* handle_claim_all
handle_claim_all(s, own) ==
    LET r == claim_all(s)
    IN IF r.ok THEN Outcome(r.st, [kind |-> "ClaimedAll", total_yield |-> r.val], <<>>)
       ELSE Outcome(r.st, ErrorResponse(r.err), <<>>)

\* handle_find_targets
handle_find_targets(s, own, count) ==
    LET r == start_find_targets(s, count)
    IN IF ~r.ok THEN Outcome(r.st, ErrorResponse(r.err), <<>>)
       ELSE IF r.st.registry_chain_id = NoChain
       THEN Outcome(r.st, ErrorResponse("No registry configured"), <<>>)
       ELSE Outcome(r.st, [kind |-> "TargetsFound", targets |-> <<>>],
                    <<Msg_RequestTargets(own, r.st.registry_chain_id[1], own,
                                         count, r.val)>>)

\* handle_lock_target
handle_lock_target(s, own, target_chain, commitment) ==
    LET r == lock_target(s, target_chain, commitment, own)
    IN IF r.ok
       THEN Outcome(r.st, [kind |-> "TargetLocked", target_chain |-> target_chain,
                           lock_until_block |-> r.val], <<>>)
       ELSE Outcome(r.st, ErrorResponse(r.err), <<>>)

\* handle_execute_steal
handle_execute_steal(s, own, target_page, target_plot, reveal_nonce) ==
    LET r == execute_steal(s, target_page, target_plot, reveal_nonce)
    IN IF ~r.ok THEN Outcome(r.st, ErrorResponse(r.err), <<>>)
       ELSE Outcome(r.st,
                    [kind |-> "StealResult", success |-> FALSE, amount_stolen |-> 0],
                    <<Msg_StealAttempt(own, r.val.target_chain, own, target_page,
                                       target_plot, r.val.attack_seed)>>)

\* handle_cancel_raid
handle_cancel_raid(s, own) ==
    LET r == cancel_raid(s)
    IN IF r.ok THEN Outcome(r.st, Success, <<>>)
       ELSE Outcome(r.st, ErrorResponse(r.err), <<>>)

(***************************************************************************)
(* contract.rs (20260119132308): the message handlers.  s is the chain's   *)
(* PlayerState after execute_message has run update_block; r is the        *)
(* RegistryState of the registry chain.                                    *)
(***************************************************************************)
\* handle_bounced_message that only logs the bounce
handle_bounced_message_ignored(s, m) == Outcome(s, NoResponse, <<>>)

\* handle_bounced_message
handle_bounced_message(s, m) ==
    IF m.type = "StealAttempt"
    THEN Outcome([s EXCEPT !.raid_state = Idle], NoResponse, <<>>)
    ELSE IF m.type = "RegisterPlayer"
    THEN Outcome([s EXCEPT !.is_registered = FALSE], NoResponse, <<>>)
    ELSE Outcome(s, NoResponse, <<>>)

\* handle_register_player_message
handle_register_player_message(r, m) ==
    IF ~r.is_registry THEN Outcome(r, NoResponse, <<>>)
    ELSE Outcome(register_player(r, m.player_chain).st, NoResponse, <<>>)

\* handle_unregister_player_message
handle_unregister_player_message(r, m) ==
    IF ~r.is_registry THEN Outcome(r, NoResponse, <<>>)
    ELSE Outcome(unregister_player(r, m.player_chain).st, NoResponse, <<>>)

\* handle_request_targets_message
handle_request_targets_message(r, own, m) ==
    IF ~r.is_registry THEN Outcome(r, NoResponse, <<>>)
    ELSE LET targets == get_random_targets(r, m.requester, m.count, m.exclude_chains)
         IN Outcome(r, NoResponse,
                    <<Msg_TargetList(own, m.requester, m.requester, targets,
                                     m.request_id)>>)

\* handle_target_list_message
handle_target_list_message(s, m) ==
    Outcome(receive_targets(s, m.targets, m.request_id).st, NoResponse, <<>>)

\* handle_steal_attempt_message that reports the share of the stake the plot
\* held when it was first funded, not of its balance now
handle_steal_attempt_message_stale(s, own, m, roll) ==
    LET r == process_steal_attempt(s, m.attacker_chain, m.target_page,
                                   m.target_plot, m.attack_seed, roll)
        res == IF r.ok THEN r.val
               ELSE [success |-> FALSE, amount |-> 0, rng_proof |-> <<>>]
        amount == IF res.success
                  THEN (InitialBalance * s.config.steal_percentage) \div 100
                  ELSE 0
        outcome == Msg_StealOutcome(own, m.attacker_chain, m.attacker_chain,
                                    res.success, amount, res.rng_proof)
        funds == Msg_StolenFunds(own, m.attacker_chain, amount,
                                 m.target_page, m.target_plot)
    IN Outcome(r.st, NoResponse,
               IF res.success /\ amount > 0 THEN <<outcome, funds>>
               ELSE <<outcome>>)

\* handle_steal_attempt_message; roll is the victim's rng_hash[0] % 100
handle_steal_attempt_message(s, own, m, roll) ==
    LET r == process_steal_attempt(s, m.attacker_chain, m.target_page,
                                   m.target_plot, m.attack_seed, roll)
        res == IF r.ok THEN r.val
               ELSE [success |-> FALSE, amount |-> 0, rng_proof |-> <<>>]
        outcome == Msg_StealOutcome(own, m.attacker_chain, m.attacker_chain,
                                    res.success, res.amount, res.rng_proof)
        funds == Msg_StolenFunds(own, m.attacker_chain, res.amount,
                                 m.target_page, m.target_plot)
    IN Outcome(r.st, NoResponse,
               IF res.success /\ res.amount > 0 THEN <<outcome, funds>>
               ELSE <<outcome>>)

\* handle_steal_outcome_message
handle_steal_outcome_message(s, m) ==
    Outcome(process_steal_outcome(s, m.success, m.amount_stolen).st, NoResponse, <<>>)

\* handle_stolen_funds_message that also ends the raid
handle_stolen_funds_message_closing(s, m) ==
    Outcome([s EXCEPT !.available_balance = @ + m.amount,
                      !.raid_state = Idle], NoResponse, <<>>)

\* handle_stolen_funds_message
handle_stolen_funds_message(s, m) ==
    Outcome([s EXCEPT !.available_balance = @ + m.amount], NoResponse, <<>>)

(***************************************************************************)
(* History, per player: the largest until_block of the Cooldowns entered,  *)
(* the number of StealAttempts sent in all, and the number sent since the  *)
(* last lockTarget that succeeded                                          *)
(***************************************************************************)
NoHistory == [cooldown_until |-> 0, attempts |-> 0, lock_attempts |-> 0]

\* the number of StealAttempt messages of chain p that net holds
AttemptsInFlight(net, p) ==
    LET RECURSIVE count(_)
        count(ms) == IF ms = {} THEN 0
                     ELSE LET m == CHOOSE x \in ms : TRUE
                          IN (IF m.type = "StealAttempt" /\ m.from = p
                              THEN CopiesIn(m, net) ELSE 0) + count(ms \ {m})
    IN count(BagToSet(net))

UpdateHist ==
    hist' = [p \in DOMAIN hist |->
        LET sent == AttemptsInFlight(network', p) - AttemptsInFlight(network, p)
            emitted == IF sent > 0 THEN sent ELSE 0
            locked == /\ state'[p].raid_state.tag = "Locked"
                      /\ state'[p].raid_state # state[p].raid_state
            entered == /\ state'[p].raid_state.tag = "Cooldown"
                       /\ state'[p].raid_state # state[p].raid_state
                       /\ state'[p].raid_state.until_block > hist[p].cooldown_until
        IN [cooldown_until |-> IF entered THEN state'[p].raid_state.until_block
                               ELSE hist[p].cooldown_until,
            attempts |-> hist[p].attempts + emitted,
            lock_attempts |-> IF locked THEN 0
                              ELSE hist[p].lock_attempts + emitted]]

(***************************************************************************)
(* contract.rs (20260119132308): execute_operation and execute_message.    *)
(* The runtime reports the block height h of the block being executed; a   *)
(* chain's height never decreases (BlockOk, which every action of a player *)
(* chain conjoins).                                                        *)
(***************************************************************************)
BlockOk(p, h) == h >= state[p].current_block

\* The network after a step, within the model's bound on messages in flight
Transmit(net) ==
    /\ BagCardinality(net) <= MaxInFlight
    /\ network' = net

\* Model bounds on the counters an outcome may reach
WithinBounds(s) ==
    /\ s.request_counter <= MaxRequests
    /\ s.page_count <= MaxPages
    /\ s.stats.total_deposited <= MaxDeposits * (InitialBalance \div 2)

\* execute_operation on chain p at height h: update_block, then the match on
\* the operation
execute_operation(p, h, operation) ==
    /\ LET s == update_block(state[p], h)
           o == CASE operation.type = "Register" -> handle_register(s, p)
                  [] operation.type = "Unregister" -> handle_unregister(s, p)
                  [] operation.type = "CreatePage" -> handle_create_page(s, p)
                  [] operation.type = "Deposit" ->
                        handle_deposit(s, p, operation.page_id, operation.plot_id,
                                       operation.amount)
                  [] operation.type = "Withdraw" ->
                        handle_withdraw(s, p, operation.page_id, operation.plot_id,
                                        operation.amount)
                  [] operation.type = "Claim" ->
                        handle_claim(s, p, operation.page_id, operation.plot_id)
                  [] operation.type = "ClaimAll" -> handle_claim_all(s, p)
                  [] operation.type = "FindTargets" ->
                        handle_find_targets(s, p, operation.count)
                  [] operation.type = "LockTarget" ->
                        handle_lock_target(s, p, operation.target_chain,
                                           operation.commitment)
                  [] operation.type = "ExecuteSteal" ->
                        handle_execute_steal(s, p, operation.target_page,
                                             operation.target_plot,
                                             operation.reveal_nonce)
                  [] operation.type = "CancelRaid" -> handle_cancel_raid(s, p)
       IN /\ WithinBounds(o.st)
          /\ state' = [state EXCEPT ![p] = o.st]
          /\ Transmit(send_all(network, o.msgs))
          /\ UNCHANGED registry
          /\ UpdateHist

\* execute_message on player chain p at height h for the delivered message m:
\* update_block, then the match on the message.  roll is the value of
\* rng_hash[0] % 100 that process_steal_attempt draws for a StealAttempt.
execute_message(p, h, m, roll) ==
    /\ m \in InFlight /\ m.to = p
    /\ LET s == update_block(state[p], h)
           o == CASE m.type = "TargetList" -> handle_target_list_message(s, m)
                  [] m.type = "StealAttempt" ->
                        handle_steal_attempt_message(s, p, m, roll)
                  [] m.type = "StealOutcome" -> handle_steal_outcome_message(s, m)
                  [] m.type = "StolenFunds" -> handle_stolen_funds_message(s, m)
       IN /\ state' = [state EXCEPT ![p] = o.st]
          /\ Transmit(send_all(receive(network, m), o.msgs))
          /\ UNCHANGED registry
          /\ UpdateHist

\* execute_message on player chain p for its own tracked message m, which the
\* destination rejected: message_is_bouncing() holds
execute_bounced(p, h, m) ==
    /\ m \in InFlight /\ m.from = p /\ m.tracked
    /\ LET o == handle_bounced_message(update_block(state[p], h), m)
       IN /\ state' = [state EXCEPT ![p] = o.st]
          /\ Transmit(send_all(receive(network, m), o.msgs))
          /\ UNCHANGED registry
          /\ UpdateHist

\* execute_message on the registry chain: the match on the message.  The
\* registry chain's own PlayerState is touched by update_block only and is
\* not modelled.
execute_registry_message(m) ==
    /\ m \in InFlight /\ m.to = RegistryChain
    /\ LET o == CASE m.type = "RegisterPlayer" ->
                        handle_register_player_message(registry, m)
                  [] m.type = "UnregisterPlayer" ->
                        handle_unregister_player_message(registry, m)
                  [] m.type = "RequestTargets" ->
                        handle_request_targets_message(registry, RegistryChain, m)
       IN /\ registry' = o.st
          /\ Transmit(send_all(receive(network, m), o.msgs))
          /\ UNCHANGED state
          /\ UpdateHist

(***************************************************************************)
(* The state after construction (instantiate): every player chain is       *)
(* instantiated with the registry's chain id and an initial balance, the   *)
(* registry chain as registry.                                             *)
(***************************************************************************)
Init ==
    /\ state = [p \in Players |->
                    PlayerState_initialize(FALSE, SomeChain(RegistryChain), InitialBalance)]
    /\ registry = RegistryState_initialize
    /\ network = EmptyBag
    /\ hist = [p \in Players |-> NoHistory]

(***************************************************************************)
(* Inputs of the operations                                                *)
(***************************************************************************)
\* the chains that submit raid operations; the other chains stake
Raiders == {1}
Counts == {1}
Nonces == {"n1", "n2"}
StealPages == {0}
\* the staked plot, and a plot index no page has
StealPlots == {0, MAX_PLOTS_PER_PAGE}
Commitments ==
    {StealCommitment_new(pg, pl, "n1", 0) : pg \in StealPages, pl \in StealPlots}
\* the victim's rng_hash[0] % 100: below STEAL_SUCCESS_RATE the steal succeeds
Rolls == {STEAL_SUCCESS_RATE - 1, STEAL_SUCCESS_RATE}
Deposits == {InitialBalance}

(***************************************************************************)
(* The raid protocol: operations and message deliveries                    *)
(***************************************************************************)
Register ==
    \E p \in Players : \E h \in Heights :
        /\ BlockOk(p, h)
        /\ execute_operation(p, h, [type |-> "Register"])

Unregister ==
    \E p \in Raiders : \E h \in Heights :
        /\ BlockOk(p, h)
        /\ execute_operation(p, h, [type |-> "Unregister"])

Deposit ==
    \E p \in Players \ Raiders : \E h \in Heights : \E amount \in Deposits :
        /\ BlockOk(p, h)
        /\ execute_operation(p, h,
               [type |-> "Deposit", page_id |-> 0,
                plot_id |-> 0, amount |-> amount])

FindTargets ==
    \E p \in Raiders : \E h \in Heights : \E count \in Counts :
        /\ BlockOk(p, h)
        /\ execute_operation(p, h, [type |-> "FindTargets", count |-> count])

LockTarget ==
    \E p \in Raiders : \E h \in Heights :
    \E target \in Players : \E c \in Commitments :
        /\ BlockOk(p, h)
        /\ execute_operation(p, h,
               [type |-> "LockTarget", target_chain |-> target,
                commitment |-> c])

ExecuteSteal ==
    \E p \in Raiders : \E h \in Heights :
    \E pg \in StealPages : \E pl \in StealPlots : \E n \in Nonces :
        /\ BlockOk(p, h)
        /\ execute_operation(p, h,
               [type |-> "ExecuteSteal", target_page |-> pg,
                target_plot |-> pl, reveal_nonce |-> n])

CancelRaid ==
    \E p \in Raiders : \E h \in Heights :
        /\ BlockOk(p, h)
        /\ execute_operation(p, h, [type |-> "CancelRaid"])

Bounce ==
    \E p \in Players : \E h \in Heights : \E m \in InFlight :
        /\ BlockOk(p, h)
        /\ execute_bounced(p, h, m)

DeliverRegisterPlayer ==
    \E m \in InFlight :
        /\ m.type = "RegisterPlayer"
        /\ execute_registry_message(m)

DeliverUnregisterPlayer ==
    \E m \in InFlight :
        /\ m.type = "UnregisterPlayer"
        /\ execute_registry_message(m)

DeliverRequestTargets ==
    \E m \in InFlight :
        /\ m.type = "RequestTargets"
        /\ execute_registry_message(m)

DeliverTargetList ==
    \E p \in Players : \E h \in Heights : \E m \in InFlight :
        /\ BlockOk(p, h)
        /\ m.type = "TargetList"
        /\ execute_message(p, h, m, 0)

DeliverStealAttempt ==
    \E p \in Players : \E h \in Heights : \E m \in InFlight : \E roll \in Rolls :
        /\ BlockOk(p, h)
        /\ m.type = "StealAttempt"
        /\ execute_message(p, h, m, roll)

DeliverStealOutcome ==
    \E p \in Players : \E h \in Heights : \E m \in InFlight :
        /\ BlockOk(p, h)
        /\ m.type = "StealOutcome"
        /\ execute_message(p, h, m, 0)

DeliverStolenFunds ==
    \E p \in Players : \E h \in Heights : \E m \in InFlight :
        /\ BlockOk(p, h)
        /\ m.type = "StolenFunds"
        /\ execute_message(p, h, m, 0)

Next ==
    \/ Register
    \/ Deposit
    \/ FindTargets
    \/ LockTarget
    \/ ExecuteSteal
    \/ CancelRaid
    \/ Bounce
    \/ DeliverRegisterPlayer
    \/ DeliverRequestTargets
    \/ DeliverTargetList
    \/ DeliverStealAttempt
    \/ DeliverStealOutcome
    \/ DeliverStolenFunds

Spec == Init /\ [][Next]_vars

\* The destination rejects a message sent without with_tracking(): the
\* message is discarded and no chain is told (a tracked one returns to its
\* sender, which is Bounce)
Reject ==
    \E m \in InFlight :
        /\ ~m.tracked
        /\ Transmit(receive(network, m))
        /\ UNCHANGED <<state, registry>>
        /\ UpdateHist

\* The raid protocol on a network whose destinations may reject messages
SpecReject == Init /\ [][Next \/ Reject]_vars

\* A StealAttempt in flight is delivered to its victim or bounces back to
\* its sender; a StealOutcome in flight (sent without tracking) is delivered
ResolveStealAttempt ==
    \E p \in Players : \E h \in Heights : \E m \in InFlight : \E roll \in Rolls :
        /\ BlockOk(p, h)
        /\ m.type = "StealAttempt"
        /\ (execute_message(p, h, m, roll) \/ execute_bounced(p, h, m))

\* The raid protocol on a network that leaves no StealAttempt and no
\* StealOutcome in flight forever; no operation is ever forced
SpecLive ==
    /\ Init /\ [][Next]_vars
    /\ WF_vars(ResolveStealAttempt)
    /\ WF_vars(DeliverStealOutcome)

\* Player chains instantiated with registry_chain_id = None
InitUnconfigured ==
    /\ state = [p \in Players |->
                    PlayerState_initialize(FALSE, NoChain, InitialBalance)]
    /\ registry = RegistryState_initialize
    /\ network = EmptyBag
    /\ hist = [p \in Players |-> NoHistory]

\* The operations of such a chain; it sends no message
NextUnconfigured ==
    \/ Register
    \/ Unregister
    \/ Deposit
    \/ FindTargets
    \/ CancelRaid

SpecUnconfigured == InitUnconfigured /\ [][NextUnconfigured]_vars

\* Every RequestTargets and every TargetList in flight is eventually handed
\* to its destination
SpecDelivery ==
    Init /\ [][Next]_vars /\ WF_vars(DeliverRequestTargets)
         /\ WF_vars(DeliverTargetList)

\* The raider's side of the protocol, with raiders that also unregister:
\* the operations, the registry's messages and the bounce of a StealAttempt.
\* The victim's deposits and its processing of the StealAttempt are left to
\* Spec.
NextUnregister ==
    \/ Register
    \/ Unregister
    \/ FindTargets
    \/ LockTarget
    \/ ExecuteSteal
    \/ CancelRaid
    \/ Bounce
    \/ DeliverRegisterPlayer
    \/ DeliverUnregisterPlayer
    \/ DeliverRequestTargets
    \/ DeliverTargetList

SpecUnregister == Init /\ [][NextUnregister]_vars

(***************************************************************************)
(* The stake ledger of the players that take part in no raid: register,    *)
(* deposit, withdraw, claim and claim_all at advancing heights             *)
(***************************************************************************)
Stakers == Players \ Raiders
LedgerPages == {0, MaxPages}
LedgerPlots == {0, 1, MAX_PLOTS_PER_PAGE}
\* a deposit below min_deposit and one of half the initial balance
LedgerDeposits == {MIN_DEPOSIT - 1, InitialBalance \div 2}
LedgerWithdrawals == {InitialBalance \div 2}

LedgerRegister ==
    \E p \in Stakers : \E h \in Heights :
        /\ BlockOk(p, h)
        /\ execute_operation(p, h, [type |-> "Register"])

LedgerDeposit ==
    \E p \in Stakers : \E h \in Heights :
    \E pg \in LedgerPages : \E pl \in LedgerPlots : \E amount \in LedgerDeposits :
        /\ BlockOk(p, h)
        /\ execute_operation(p, h,
               [type |-> "Deposit", page_id |-> pg,
                plot_id |-> pl, amount |-> amount])

LedgerWithdraw ==
    \E p \in Stakers : \E h \in Heights :
    \E pg \in LedgerPages : \E pl \in LedgerPlots : \E amount \in LedgerWithdrawals :
        /\ BlockOk(p, h)
        /\ execute_operation(p, h,
               [type |-> "Withdraw", page_id |-> pg,
                plot_id |-> pl, amount |-> amount])

LedgerClaim ==
    \E p \in Stakers : \E h \in Heights :
    \E pg \in LedgerPages : \E pl \in LedgerPlots :
        /\ BlockOk(p, h)
        /\ execute_operation(p, h,
               [type |-> "Claim", page_id |-> pg, plot_id |-> pl])

LedgerClaimAll ==
    \E p \in Stakers : \E h \in Heights :
        /\ BlockOk(p, h)
        /\ execute_operation(p, h, [type |-> "ClaimAll"])

NextLedger ==
    \/ LedgerRegister
    \/ LedgerDeposit
    \/ LedgerWithdraw
    \/ LedgerClaim
    \/ LedgerClaimAll
    \/ DeliverRegisterPlayer

SpecLedger == Init /\ [][NextLedger]_vars

(***************************************************************************)
(* The victim's side of a steal: the raid protocol without cancelRaid and  *)
(* bounces, with a victim that also withdraws and claims on the plot the   *)
(* raider aims at, so that StealAttempts meet plots of every balance       *)
(***************************************************************************)
\* a plot balance too small for steal_percentage to take a whole unit
Residue == MIN_DEPOSIT \div 20
\* withdrawals that leave the residue on the plot, empty a fresh stake, and
\* empty a stake that was robbed once
VictimWithdrawals ==
    {InitialBalance - Residue, InitialBalance,
     InitialBalance - (InitialBalance * STEAL_PERCENTAGE) \div 100}

VictimWithdraw ==
    \E p \in Stakers : \E h \in Heights : \E amount \in VictimWithdrawals :
        /\ BlockOk(p, h)
        /\ execute_operation(p, h,
               [type |-> "Withdraw", page_id |-> 0,
                plot_id |-> 0, amount |-> amount])

VictimClaim ==
    \E p \in Stakers : \E h \in Heights :
        /\ BlockOk(p, h)
        /\ execute_operation(p, h, [type |-> "Claim", page_id |-> 0, plot_id |-> 0])

VictimCreatePage ==
    \E p \in Stakers : \E h \in Heights :
        /\ BlockOk(p, h)
        /\ execute_operation(p, h, [type |-> "CreatePage"])

NextVictim ==
    \/ Register
    \/ VictimCreatePage
    \/ Deposit
    \/ VictimWithdraw
    \/ VictimClaim
    \/ FindTargets
    \/ LockTarget
    \/ ExecuteSteal
    \/ DeliverRegisterPlayer
    \/ DeliverRequestTargets
    \/ DeliverTargetList
    \/ DeliverStealAttempt
    \/ DeliverStealOutcome
    \/ DeliverStolenFunds

SpecVictim == Init /\ [][NextVictim]_vars

(***************************************************************************)
(* The later snapshot: contract.rs (20260121115127) with lib.rs            *)
(* (20260121120819).  One contract per chain, no registry; the raid arms   *)
(* of execute_operation and execute_message are written inline and send no *)
(* message, so the messages a chain executes are inputs.  The Token B      *)
(* (SAS) rewards, plot purchases and shield purchases are left out: no     *)
(* raid arm reads them, and without ActivateShield no plot has a shield.   *)
(***************************************************************************)
V2_BASE_PLOTS_COUNT == 5
V2_MIN_STEAL_STAKE == 1000
V2_LOCK_BLOCKS == 50
V2_VICTIM_STEAL_PERCENTAGE == 15
V2_STEAL_COST_PERCENTAGE == 15

\* RaidState::Locked and RaidState::Executing of the later lib.rs
V2_Locked(target, commitment, exp) ==
    [tag |-> "Locked", target_chain |-> target, commitment |-> commitment,
     expires_at_block |-> exp]
V2_ZeroCommitment == <<"bytes", 0>>

\* LandPlot { id, is_purchased, ..Default::default() }
V2_NewPlot(i) ==
    [id |-> i, is_active |-> FALSE, is_purchased |-> i < V2_BASE_PLOTS_COUNT,
     token_a_balance |-> 0, pending_token_a_yield |-> 0,
     deposit_block |-> 0, last_claim_block |-> 0, shield_active |-> FALSE]

\* Page::new
V2_Page_new(id, current_block) ==
    [page_id |-> id, is_unlocked |-> TRUE,
     plots |-> [i \in 0..(MAX_PLOTS_PER_PAGE - 1) |-> V2_NewPlot(i)],
     created_at |-> current_block]

\* PlayerStats::default, the counters the modelled handlers write
V2_PlayerStats_default ==
    [total_deposited |-> 0, total_withdrawn |-> 0, total_stolen |-> 0,
     total_lost_to_steals |-> 0, successful_steals |-> 0, failed_steals |-> 0,
     times_raided |-> 0, shields_consumed |-> 0]

\* GameConfig::default, the fields the modelled handlers read
V2_GameConfig_default ==
    [yield_rate_bps |-> BASE_YIELD_RATE_BPS,
     min_steal_stake |-> V2_MIN_STEAL_STAKE,
     min_deposit |-> MIN_DEPOSIT,
     raid_cooldown_blocks |-> RAID_COOLDOWN_BLOCKS]

\* instantiate
V2_instantiate(initial_balance) ==
    [is_registered |-> FALSE,
     encrypted_name |-> <<>>,
     token_a_balance |-> initial_balance,
     token_b_balance |-> 0,
     page_count |-> 0,
     pages |-> <<>>,
     raid_state |-> Idle,
     stats |-> V2_PlayerStats_default,
     config |-> V2_GameConfig_default,
     current_block |-> 0,
     last_raid_block |-> 0]

\* handle_register
V2_handle_register(s, own, encrypted_name) ==
    IF s.is_registered
    THEN Outcome(s, ErrorResponse("Already registered"), <<>>)
    ELSE Outcome([s EXCEPT !.is_registered = TRUE,
                           !.encrypted_name = encrypted_name],
                 [kind |-> "Registered", player_id |-> own], <<>>)

\* handle_create_page
V2_handle_create_page(s) ==
    IF s.page_count >= MAX_PAGES_PER_PLAYER
    THEN Outcome(s, ErrorResponse("Maximum pages reached"), <<>>)
    ELSE Outcome([s EXCEPT !.pages = pages_insert(@, s.page_count,
                                        V2_Page_new(s.page_count, s.current_block)),
                           !.page_count = @ + 1],
                 [kind |-> "PageCreated", page_id |-> s.page_count], <<>>)

\* handle_deposit
V2_handle_deposit(s, page_id, plot_id, amount) ==
    LET available == s.token_a_balance IN
    IF available < amount
    THEN Outcome(s, ErrorResponse("Insufficient Token A balance"), <<>>)
    ELSE IF page_id \notin DOMAIN s.pages
    THEN Outcome(s, ErrorResponse("Invalid page ID"), <<>>)
    ELSE LET page == s.pages[page_id] IN
    IF plot_id >= MAX_PLOTS_PER_PAGE
    THEN Outcome(s, ErrorResponse("Invalid plot ID"), <<>>)
    ELSE LET plot == page.plots[plot_id] IN
    IF ~plot.is_purchased
    THEN Outcome(s, ErrorResponse("Plot not purchased"), <<>>)
    ELSE
      LET plot1 == IF ~plot.is_active
                   THEN [plot EXCEPT !.is_active = TRUE,
                                     !.deposit_block = s.current_block,
                                     !.last_claim_block = s.current_block]
                   ELSE plot
          plot2 == [plot1 EXCEPT !.token_a_balance = @ + amount]
          page1 == [page EXCEPT !.plots[plot_id] = plot2]
      IN Outcome([s EXCEPT !.pages = pages_insert(@, page_id, page1),
                           !.token_a_balance = available - amount,
                           !.stats.total_deposited = @ + amount],
                 [kind |-> "Deposited", page_id |-> page_id, plot_id |-> plot_id,
                  new_balance |-> plot2.token_a_balance], <<>>)

\* LandPlot::calculate_token_a_yield
V2_calculate_token_a_yield(plot, current_block, yield_rate_bps) ==
    IF ~plot.is_active \/ plot.token_a_balance = 0 THEN 0
    ELSE LET blocks_elapsed == saturating_sub(current_block, plot.last_claim_block)
         IN saturating_mul(saturating_mul(plot.token_a_balance, blocks_elapsed),
                           yield_rate_bps) \div YIELD_DIVISOR

\* handle_withdraw
V2_handle_withdraw(s, page_id, plot_id, amount) ==
    IF page_id \notin DOMAIN s.pages
    THEN Outcome(s, ErrorResponse("Invalid page ID"), <<>>)
    ELSE LET page == s.pages[page_id] IN
    IF plot_id >= MAX_PLOTS_PER_PAGE
    THEN Outcome(s, ErrorResponse("Invalid plot ID"), <<>>)
    ELSE LET plot == page.plots[plot_id] IN
    IF plot.token_a_balance < amount
    THEN Outcome(s, ErrorResponse("Insufficient plot balance"), <<>>)
    ELSE
      LET left == plot.token_a_balance - amount
          plot1 == [plot EXCEPT !.token_a_balance = left,
                                !.is_active = IF left = 0 THEN FALSE ELSE @]
          page1 == [page EXCEPT !.plots[plot_id] = plot1]
      IN Outcome([s EXCEPT !.pages = pages_insert(@, page_id, page1),
                           !.token_a_balance = @ + amount,
                           !.stats.total_withdrawn = @ + amount],
                 [kind |-> "Withdrawn", page_id |-> page_id, plot_id |-> plot_id,
                  amount |-> amount], <<>>)

\* execute_operation, arm Operation::FindTargets
V2_find_targets(s, count) ==
    Outcome(s, [kind |-> "TargetsFound", targets |-> <<>>], <<>>)

\* execute_operation, arm Operation::LockTarget
V2_lock_target(s, target_chain, commitment) ==
    Outcome([s EXCEPT !.raid_state =
                V2_Locked(target_chain, V2_ZeroCommitment,
                          s.current_block + V2_LOCK_BLOCKS)],
            [kind |-> "TargetLocked", target_chain |-> target_chain,
             lock_until_block |-> s.current_block + V2_LOCK_BLOCKS], <<>>)

\* handle_execute_steal
V2_handle_execute_steal(s, attacker_page, attacker_plot) ==
    IF attacker_page \notin DOMAIN s.pages
    THEN Outcome([s EXCEPT !.raid_state = Idle],
                 ErrorResponse("Invalid attacker page ID"), <<>>)
    ELSE LET page == s.pages[attacker_page] IN
    IF attacker_plot >= MAX_PLOTS_PER_PAGE
    THEN Outcome([s EXCEPT !.raid_state = Idle],
                 ErrorResponse("Invalid attacker plot ID"), <<>>)
    ELSE
      LET attacker_stake == page.plots[attacker_plot].token_a_balance IN
      IF attacker_stake >= s.config.min_steal_stake
      THEN LET steal_cost == (attacker_stake * V2_STEAL_COST_PERCENTAGE) \div 100
               amount_stolen == attacker_stake - steal_cost
               page1 == [page EXCEPT !.plots[attacker_plot].token_a_balance = 0]
           IN Outcome([s EXCEPT !.pages = pages_insert(@, attacker_page, page1),
                                !.token_a_balance = @ + amount_stolen,
                                !.stats.successful_steals = @ + 1,
                                !.stats.total_stolen = @ + amount_stolen,
                                !.raid_state =
                                    Cooldown(s.current_block
                                             + s.config.raid_cooldown_blocks)],
                      [kind |-> "StealResult", success |-> TRUE,
                       amount_stolen |-> amount_stolen], <<>>)
      ELSE Outcome([s EXCEPT !.raid_state = Idle,
                             !.stats.failed_steals = @ + 1],
                   ErrorResponse("Insufficient stake for guaranteed steal"), <<>>)

\* execute_operation, arm Operation::CancelRaid
V2_cancel_raid(s) ==
    Outcome([s EXCEPT !.raid_state = Idle], Success, <<>>)

\* process_steal_on_victim
V2_process_steal_on_victim(s, target_page, target_plot, steal_percentage) ==
    IF target_page \notin DOMAIN s.pages THEN Err(s, "InvalidPageId")
    ELSE LET page == s.pages[target_page] IN
    IF target_plot >= MAX_PLOTS_PER_PAGE THEN Err(s, "InvalidPlotId")
    ELSE LET plot == page.plots[target_plot] IN
    IF plot.shield_active
    THEN LET page1 == [page EXCEPT !.plots[target_plot].shield_active = FALSE]
         IN Ok([s EXCEPT !.pages = pages_insert(@, target_page, page1),
                         !.stats.shields_consumed = @ + 1],
               [amount |-> 0, blocked_by_shield |-> TRUE])
    ELSE LET stolen_amount == (plot.token_a_balance * steal_percentage) \div 100
             page1 == [page EXCEPT !.plots[target_plot].token_a_balance =
                                       @ - stolen_amount]
         IN Ok([s EXCEPT !.pages = pages_insert(@, target_page, page1),
                         !.stats.total_lost_to_steals = @ + stolen_amount,
                         !.stats.times_raided = @ + 1],
               [amount |-> stolen_amount, blocked_by_shield |-> FALSE])

\* the messages a chain may be handed
V2_Msg_TargetsResponse(targets, request_id) ==
    [type |-> "TargetsResponse", targets |-> targets, request_id |-> request_id]
V2_Msg_RequestTargets(requester, count, request_id) ==
    [type |-> "RequestTargets", requester |-> requester, count |-> count,
     request_id |-> request_id]
V2_Msg_StealAttempt(attacker, target_page, target_plot) ==
    [type |-> "StealAttempt", attacker |-> attacker, target_page |-> target_page,
     target_plot |-> target_plot]
V2_Msg_StealResult(success, amount) ==
    [type |-> "StealResult", success |-> success, amount |-> amount,
     blocked_by_shield |-> FALSE]
V2_Msg_StolenFunds(from_chain, amount) ==
    [type |-> "StolenFunds", from_chain |-> from_chain, amount |-> amount]

\* execute_message after the block height is recorded: the match on the message
V2_execute_message(s, m) ==
    IF m.type = "TargetsResponse"
    THEN [s EXCEPT !.raid_state =
             Choosing(m.targets, s.current_block + V2_LOCK_BLOCKS)]
    ELSE IF m.type = "StealAttempt"
    THEN V2_process_steal_on_victim(s, m.target_page, m.target_plot,
                                    V2_VICTIM_STEAL_PERCENTAGE).st
    ELSE IF m.type = "StealResult"
    THEN LET s1 == IF m.success
                   THEN [s EXCEPT !.stats.successful_steals = @ + 1,
                                  !.stats.total_stolen = @ + m.amount,
                                  !.token_a_balance = @ + m.amount]
                   ELSE [s EXCEPT !.stats.failed_steals = @ + 1]
         IN [s1 EXCEPT !.raid_state = Idle]
    ELSE IF m.type = "StolenFunds"
    THEN [s EXCEPT !.token_a_balance = @ + m.amount]
    ELSE s

\* the messages execute_message sends while it handles m: no arm of the match
\* prepares or sends a message
V2_execute_message_sends(s, m) == <<>>

(***************************************************************************)
(* The later snapshot as a state machine: one chain, its operations and    *)
(* the messages handed to it                                               *)
(***************************************************************************)
V2Chains == {1}
V2Others == Players \ V2Chains
V2Amounts == {InitialBalance \div 2}
V2Messages ==
    {V2_Msg_TargetsResponse(<<>>, 1)}
    \cup {V2_Msg_RequestTargets(a, n, 1) : a \in V2Others, n \in Counts}
    \cup {V2_Msg_StealAttempt(a, 0, 0) : a \in V2Others}
    \cup {V2_Msg_StealResult(b, n) : b \in BOOLEAN, n \in V2Amounts}
    \cup {V2_Msg_StolenFunds(a, n) : a \in V2Others, n \in V2Amounts}

InitV2 ==
    /\ state = [p \in V2Chains |-> V2_instantiate(InitialBalance)]
    /\ registry = RegistryState_initialize
    /\ network = EmptyBag
    /\ hist = [p \in V2Chains |-> NoHistory]

\* Model bounds on the counters of the later snapshot
V2WithinBounds(s) ==
    /\ s.page_count <= MaxPages
    /\ s.stats.total_deposited <= MaxDeposits * (InitialBalance \div 2)
    /\ s.stats.successful_steals + s.stats.failed_steals <= MaxSteals
    /\ s.stats.times_raided <= MaxSteals
    /\ s.token_a_balance <= (MaxSteals + 1) * InitialBalance

\* execute_operation of the later snapshot: current_block.set(height), then
\* the match on the operation
V2_execute_operation(p, h, operation) ==
    LET s == update_block(state[p], h)
        o == CASE operation.type = "Register" ->
                     V2_handle_register(s, p, operation.encrypted_name)
               [] operation.type = "CreatePage" -> V2_handle_create_page(s)
               [] operation.type = "Deposit" ->
                     V2_handle_deposit(s, operation.page_id, operation.plot_id,
                                       operation.amount)
               [] operation.type = "Withdraw" ->
                     V2_handle_withdraw(s, operation.page_id, operation.plot_id,
                                        operation.amount)
               [] operation.type = "FindTargets" ->
                     V2_find_targets(s, operation.count)
               [] operation.type = "LockTarget" ->
                     V2_lock_target(s, operation.target_chain, operation.commitment)
               [] operation.type = "ExecuteSteal" ->
                     V2_handle_execute_steal(s, operation.attacker_page,
                                             operation.attacker_plot)
               [] operation.type = "CancelRaid" -> V2_cancel_raid(s)
    IN /\ V2WithinBounds(o.st)
       /\ state' = [state EXCEPT ![p] = o.st]
       /\ UNCHANGED <<registry, network>>
       /\ UpdateHist

V2Register ==
    \E p \in V2Chains : \E h \in Heights :
        /\ BlockOk(p, h)
        /\ V2_execute_operation(p, h,
               [type |-> "Register", encrypted_name |-> <<>>])

V2CreatePage ==
    \E p \in V2Chains : \E h \in Heights :
        /\ BlockOk(p, h)
        /\ V2_execute_operation(p, h, [type |-> "CreatePage"])

V2Deposit ==
    \E p \in V2Chains : \E h \in Heights : \E amount \in V2Amounts :
        /\ BlockOk(p, h)
        /\ V2_execute_operation(p, h,
               [type |-> "Deposit", page_id |-> 0,
                plot_id |-> 0, amount |-> amount])

V2FindTargets ==
    \E p \in V2Chains : \E h \in Heights : \E count \in Counts :
        /\ BlockOk(p, h)
        /\ V2_execute_operation(p, h, [type |-> "FindTargets", count |-> count])

V2LockTarget ==
    \E p \in V2Chains : \E h \in Heights :
    \E target \in Players : \E c \in Commitments :
        /\ BlockOk(p, h)
        /\ V2_execute_operation(p, h,
               [type |-> "LockTarget", target_chain |-> target,
                commitment |-> c])

V2ExecuteSteal ==
    \E p \in V2Chains : \E h \in Heights :
    \E pg \in StealPages : \E pl \in StealPlots :
        /\ BlockOk(p, h)
        /\ V2_execute_operation(p, h,
               [type |-> "ExecuteSteal", attacker_page |-> pg,
                attacker_plot |-> pl])

V2CancelRaid ==
    \E p \in V2Chains : \E h \in Heights :
        /\ BlockOk(p, h)
        /\ V2_execute_operation(p, h, [type |-> "CancelRaid"])

V2ExecuteMessage ==
    \E p \in V2Chains : \E h \in Heights : \E m \in V2Messages :
        /\ BlockOk(p, h)
        /\ LET s == V2_execute_message(update_block(state[p], h), m)
               sent == V2_execute_message_sends(update_block(state[p], h), m)
           IN /\ V2WithinBounds(s)
              /\ state' = [state EXCEPT ![p] = s]
              /\ network' = send_all(network, sent)
              /\ UNCHANGED registry
              /\ UpdateHist

NextV2 ==
    \/ V2Register
    \/ V2CreatePage
    \/ V2Deposit
    \/ V2FindTargets
    \/ V2LockTarget
    \/ V2ExecuteSteal
    \/ V2CancelRaid
    \/ V2ExecuteMessage

SpecV2 == InitV2 /\ [][NextV2]_vars

(***************************************************************************)
(* Properties of the raid protocol (Spec)                                  *)
(***************************************************************************)
RaidingTags == {"Searching", "Choosing", "Locked", "Executing"}

\* the heights at which chain p may execute its next block
NextHeights(p) == {h \in Heights : BlockOk(p, h)}

\* s and t differ at most in current_block
SameButBlock(s, t) == t = [s EXCEPT !.current_block = t.current_block]

\* the outcome of findTargets(count) submitted to chain p at height h
FindTargetsOutcome(p, h, count) ==
    handle_find_targets(update_block(state[p], h), p, count)

\* C1 as stated: findTargets issued while the raid state is Searching,
\* Choosing, Locked or Executing fails with AlreadyRaiding, emits no message
\* and leaves the raid state and the request counter unchanged; it is
\* accepted only from Idle or from a Cooldown whose until_block has passed.
C1_FindTargetsAlreadyRaiding ==
    \A p \in Players : \A h \in NextHeights(p) : \A count \in Counts :
        LET o == FindTargetsOutcome(p, h, count)
        IN /\ state[p].raid_state.tag \in RaidingTags =>
                /\ o.resp = ErrorResponse("AlreadyRaiding")
                /\ o.msgs = <<>>
                /\ o.st.raid_state = state[p].raid_state
                /\ o.st.request_counter = state[p].request_counter
           /\ o.resp.kind = "TargetsFound" =>
                \/ state[p].raid_state.tag = "Idle"
                \/ /\ state[p].raid_state.tag = "Cooldown"
                   /\ h >= state[p].raid_state.until_block

\* C1 amended: findTargets issued while the raid state is Searching,
\* Choosing, Locked or Executing fails, with AlreadyRaiding when the player
\* is registered and with NotRegistered when it is not; either way it emits
\* no message and changes nothing but the recorded block height.  It is
\* accepted only from Idle or from a Cooldown whose until_block has passed.
C1_FindTargetsRejectedWhileRaiding ==
    \A p \in Players : \A h \in NextHeights(p) : \A count \in Counts :
        LET o == FindTargetsOutcome(p, h, count)
        IN /\ state[p].raid_state.tag \in RaidingTags =>
                /\ o.resp = ErrorResponse(IF state[p].is_registered
                                          THEN "AlreadyRaiding"
                                          ELSE "NotRegistered")
                /\ o.msgs = <<>>
                /\ SameButBlock(state[p], o.st)
           /\ o.resp.kind = "TargetsFound" =>
                \/ state[p].raid_state.tag = "Idle"
                \/ /\ state[p].raid_state.tag = "Cooldown"
                   /\ h >= state[p].raid_state.until_block

\* a registered player with a steal in flight submits findTargets and is
\* refused with AlreadyRaiding
C1_Witness ==
    \E p \in Players : \E h \in NextHeights(p) : \E count \in Counts :
        /\ state[p].is_registered
        /\ state[p].raid_state.tag = "Executing"
        /\ FindTargetsOutcome(p, h, count).resp = ErrorResponse("AlreadyRaiding")

\* C2: once a player has entered Cooldown{until_block}, every step that takes
\* the player into Searching happens at a block height >= until_block.
C2_NoSearchingBeforeCooldownEnds ==
    [][\A p \in Players :
          (/\ state[p].raid_state.tag # "Searching"
           /\ state'[p].raid_state.tag = "Searching")
          => state'[p].current_block >= hist[p].cooldown_until]_vars

\* the StealOutcome and StolenFunds messages addressed to a
StealResultsInFlight(a) ==
    {m \in InFlight : m.to = a /\ m.type \in {"StealOutcome", "StolenFunds"}}

\* C3: when exactly one steal has succeeded against v and none of the
\* victim's StealOutcome and StolenFunds messages is still in flight, the
\* attacker's liquid balance has grown by exactly what v's plot lost.  (A
\* raider of this specification never deposits, so its liquid balance
\* changes by steal credits only.)
C3_StealMovesValue ==
    \A a \in Raiders : \A v \in Players \ {a} :
        (/\ state[v].stats.times_been_robbed = 1
         /\ \A w \in Players \ {a, v} : state[w].stats.times_been_robbed = 0
         /\ StealResultsInFlight(a) = {})
        => state[a].available_balance
             = InitialBalance + state[v].stats.total_lost_to_theft

\* the raid state r may become q in a block at height h
LegalRaidTransition(r, q, h) ==
    \/ q = r
    \/ r.tag = "Idle" /\ q.tag = "Searching"
    \/ r.tag = "Cooldown" /\ h >= r.until_block /\ q.tag = "Searching"
    \/ r.tag = "Searching" /\ q.tag = "Choosing"
    \/ r.tag = "Choosing" /\ q.tag = "Locked"
    \/ r.tag = "Locked" /\ q.tag = "Executing"
    \/ r.tag \in RaidingTags /\ q.tag = "Cooldown"
    \/ r.tag \in {"Choosing", "Locked"} /\ h >= r.expires_at_block /\ q.tag = "Idle"
    \/ r.tag = "Executing" /\ q.tag = "Idle"

\* C4: every change of a player's RaidState is one of the legal transitions.
C4_OnlyLegalRaidTransitions ==
    [][\A p \in Players :
          LegalRaidTransition(state[p].raid_state, state'[p].raid_state,
                              state'[p].current_block)]_vars

\* the outcome of executeSteal(pg, pl, n) submitted to chain p at height h
ExecuteStealOutcome(p, h, pg, pl, n) ==
    handle_execute_steal(update_block(state[p], h), p, pg, pl, n)

\* C6: executeSteal(page, plot, nonce) issued from an unexpired Locked state
\* succeeds, moving to Executing and emitting exactly one StealAttempt to
\* the locked target, if and only if the hash of (page, plot, nonce) equals
\* the stored commitment; on a mismatch it returns InvalidCommitment, emits
\* nothing, records no PendingSteal and leaves the Locked state as it was.
C6_ExecuteStealIffCommitment ==
    \A p \in Players : \A h \in NextHeights(p) :
    \A pg \in StealPages : \A pl \in StealPlots : \A n \in Nonces :
        (/\ state[p].raid_state.tag = "Locked"
         /\ h < state[p].raid_state.expires_at_block)
        => LET r == state[p].raid_state
               o == ExecuteStealOutcome(p, h, pg, pl, n)
           IN IF StealCommitment_new(pg, pl, n, 0) = r.commitment
              THEN /\ o.resp.kind = "StealResult"
                   /\ o.st.raid_state = Executing(r.target_chain, pg, pl, h)
                   /\ Len(o.msgs) = 1
                   /\ o.msgs[1].type = "StealAttempt"
                   /\ o.msgs[1].to = r.target_chain
                   /\ o.msgs[1].target_page = pg
                   /\ o.msgs[1].target_plot = pl
              ELSE /\ o.resp = ErrorResponse("InvalidCommitment")
                   /\ o.msgs = <<>>
                   /\ SameButBlock(state[p], o.st)

\* a steal was executed: the player is Executing, the PendingSteal is
\* recorded and the StealAttempt is on its way to the target
C6_Witness ==
    \E p \in Players : \E m \in InFlight :
        /\ state[p].raid_state.tag = "Executing"
        /\ state[p].pending_steals # <<>>
        /\ m.type = "StealAttempt" /\ m.from = p
        /\ m.to = state[p].raid_state.target_chain

\* the StealAttempt messages of p's current Executing state that can bounce
BouncingAttempts(p) ==
    {m \in InFlight :
        /\ m.type = "StealAttempt" /\ m.from = p /\ m.tracked
        /\ state[p].raid_state.tag = "Executing"
        /\ m.to = state[p].raid_state.target_chain
        /\ m.target_page = state[p].raid_state.target_page
        /\ m.target_plot = state[p].raid_state.target_plot}

\* C7: when a StealAttempt bounces back to an attacker that is Executing for
\* that attempt, the attacker's raid state becomes Idle, and a findTargets
\* the (registered) player submits next is accepted.
C7_BounceResetsExecuting ==
    \A p \in Players : \A m \in BouncingAttempts(p) : \A h \in NextHeights(p) :
        LET o == handle_bounced_message(update_block(state[p], h), m)
        IN /\ o.st.raid_state = Idle
           /\ o.msgs = <<>>
           /\ \A count \in Counts :
                LET f == handle_find_targets(o.st, p, count)
                IN state[p].is_registered =>
                     /\ f.resp.kind = "TargetsFound"
                     /\ f.st.raid_state.tag = "Searching"

\* an Executing attacker whose StealAttempt can bounce, and whose bounce
\* handler leaves it Idle
C7_Witness ==
    \E p \in Players : \E m \in BouncingAttempts(p) : \E h \in NextHeights(p) :
        handle_bounced_message(update_block(state[p], h), m).st.raid_state = Idle

\* the sum of f[p] over the chains ps
SumOver(ps, f) ==
    LET RECURSIVE sum(_)
        sum(qs) == IF qs = {} THEN 0
                   ELSE LET q == CHOOSE x \in qs : TRUE
                        IN f[q] + sum(qs \ {q})
    IN sum(ps)

\* C12: each raid emits at most one StealAttempt.  No lockTarget is followed
\* by more than one StealAttempt; in Executing every executeSteal fails,
\* emits nothing and changes nothing; and the plots have been deducted from
\* at most once per StealAttempt that was sent and is no longer in flight.
C12_OneAttemptPerRaid ==
    /\ \A p \in Players :
          /\ hist[p].lock_attempts <= 1
          /\ state[p].raid_state.tag = "Locked" => hist[p].lock_attempts = 0
          /\ state[p].raid_state.tag = "Executing" =>
                \A h \in NextHeights(p) :
                \A pg \in StealPages : \A pl \in StealPlots : \A n \in Nonces :
                    LET o == ExecuteStealOutcome(p, h, pg, pl, n)
                    IN /\ o.resp = ErrorResponse("InvalidRaidState")
                       /\ o.msgs = <<>>
                       /\ SameButBlock(state[p], o.st)
    /\ SumOver(Players, [v \in Players |-> state[v].stats.times_been_robbed])
          <= SumOver(Players, [p \in Players |->
                 hist[p].attempts - AttemptsInFlight(network, p)])

\* the raid's one StealAttempt was sent and took from the victim's plot,
\* and the raider is still Executing
C12_Witness ==
    \E p \in Players : \E v \in Players \ {p} :
        /\ state[p].raid_state.tag = "Executing"
        /\ state[p].raid_state.target_chain = v
        /\ hist[p].lock_attempts = 1
        /\ AttemptsInFlight(network, p) = 0
        /\ state[v].stats.times_been_robbed = 1

\* the outcome o of a call made at height h on state s is the lazy expiry:
\* TargetLockExpired, the raid state reset to Idle, nothing else changed
Expired(s, h, o) ==
    /\ o.resp = ErrorResponse("TargetLockExpired")
    /\ o.msgs = <<>>
    /\ o.st = [update_block(s, h) EXCEPT !.raid_state = Idle]

\* the outcome o is not a rejection for expiry
NotExpired(o) ==
    /\ ~(o.resp.kind = "Error" /\ o.resp.message = "TargetLockExpired")
    /\ o.st.raid_state.tag # "Idle"

\* lazy expiry; own_too: also for the lockTargets naming the caller's chain
LazyExpiry(own_too) ==
    \A p \in Players : \A h \in NextHeights(p) :
        LET s == state[p]
            u == update_block(s, h)
        IN /\ u.raid_state = s.raid_state
           /\ s.raid_state.tag = "Choosing" =>
                \A target \in (IF own_too THEN Players ELSE Players \ {p}) :
                \A c \in Commitments :
                    LET o == handle_lock_target(u, p, target, c)
                    IN IF h >= s.raid_state.expires_at_block
                       THEN Expired(s, h, o) ELSE NotExpired(o)
           /\ s.raid_state.tag = "Locked" =>
                \A pg \in StealPages : \A pl \in StealPlots : \A n \in Nonces :
                    LET o == handle_execute_steal(u, p, pg, pl, n)
                    IN IF h >= s.raid_state.expires_at_block
                       THEN Expired(s, h, o) ELSE NotExpired(o)

\* C15 as stated: lockTarget in Choosing, or executeSteal in Locked, at a
\* height >= expires_at_block fails with TargetLockExpired and resets the
\* raid state to Idle; below expires_at_block it is not rejected for
\* expiry; recording a block height never changes the raid state.
C15_LazyExpiryAnyTarget == LazyExpiry(TRUE)

\* C15 amended: the same, for the lockTargets that name another chain than
\* the caller's own (lockTarget naming the own chain returns
\* CannotStealFromSelf before the expiry is looked at, and the expired
\* Choosing state stays).
C15_LazyExpiry == LazyExpiry(FALSE)

\* an expired Choosing state is still in place, and the lockTarget that
\* comes now is refused with TargetLockExpired
C15_Witness ==
    \E p \in Players : \E h \in NextHeights(p) :
    \E target \in Players \ {p} : \E c \in Commitments :
        /\ state[p].raid_state.tag = "Choosing"
        /\ state[p].current_block >= state[p].raid_state.expires_at_block
        /\ Expired(state[p], h,
                   handle_lock_target(update_block(state[p], h), p, target, c))

\* the request ids chain p has allocated that are still on record: the id of
\* its Searching state, the keys of its pending steals, and the ids of its
\* RequestTargets and TargetList messages in flight
AllocatedIds(p) ==
    (IF state[p].raid_state.tag = "Searching"
     THEN {state[p].raid_state.request_id} ELSE {})
    \cup DOMAIN state[p].pending_steals
    \cup {m.request_id : m \in {x \in InFlight :
              /\ x.type \in {"RequestTargets", "TargetList"}
              /\ x.requester = p}}

\* C16: findTargets by a registered player in Cooldown{until_block = X}
\* fails with InCooldown(X) and changes nothing when the block height is
\* below X; at a height >= X it succeeds, moves to Searching with a
\* request_id greater than every id allocated before, and sends one
\* RequestTargets carrying that id to the registry.
C16_CooldownThenFreshRequest ==
    \A p \in Players :
        /\ \A id \in AllocatedIds(p) : id <= state[p].request_counter
        /\ (state[p].is_registered /\ state[p].raid_state.tag = "Cooldown") =>
              \A h \in NextHeights(p) : \A count \in Counts :
                LET s == state[p]
                    X == s.raid_state.until_block
                    o == FindTargetsOutcome(p, h, count)
                IN IF h < X
                   THEN /\ o.resp = ErrorResponse(InCooldown(X))
                        /\ o.msgs = <<>>
                        /\ SameButBlock(s, o.st)
                   ELSE /\ o.resp.kind = "TargetsFound"
                        /\ o.st.raid_state.tag = "Searching"
                        /\ o.st.raid_state.request_id > s.request_counter
                        /\ o.st.request_counter = o.st.raid_state.request_id
                        /\ Len(o.msgs) = 1
                        /\ o.msgs[1].type = "RequestTargets"
                        /\ o.msgs[1].to = RegistryChain
                        /\ o.msgs[1].requester = p
                        /\ o.msgs[1].request_id = o.st.raid_state.request_id

\* a registered player in Cooldown whose next block is exactly until_block,
\* where findTargets is accepted
C16_Witness ==
    \E p \in Players : \E count \in Counts :
        /\ state[p].is_registered
        /\ state[p].raid_state.tag = "Cooldown"
        /\ state[p].raid_state.until_block \in NextHeights(p)
        /\ state[p].current_block < state[p].raid_state.until_block
        /\ FindTargetsOutcome(p, state[p].raid_state.until_block, count).resp.kind
             = "TargetsFound"

(***************************************************************************)
(* Out-of-order operations, cancelRaid and StealOutcome: the snapshot of   *)
(* 20260119 (Spec) and the later snapshot (SpecV2)                         *)
(***************************************************************************)
\* the outcome o leaves the state s as it was at height h, and sends nothing
Rejected(s, h, o, e) ==
    /\ o.resp = ErrorResponse(e)
    /\ o.msgs = <<>>
    /\ o.st = update_block(s, h)

\* In the snapshot of 20260119 an out-of-order lockTarget or executeSteal
\* returns InvalidRaidState and a cancelRaid in Idle or Cooldown returns
\* NotRaiding, each without effect and without a message.
V1_OutOfOrderRejected ==
    \A p \in Players : \A h \in NextHeights(p) :
        LET s == state[p]
            u == update_block(s, h)
        IN /\ s.raid_state.tag # "Choosing" =>
                \A target \in Players \ {p} : \A c \in Commitments :
                    Rejected(s, h, handle_lock_target(u, p, target, c),
                             "InvalidRaidState")
           /\ s.raid_state.tag # "Locked" =>
                \A pg \in StealPages : \A pl \in StealPlots : \A n \in Nonces :
                    Rejected(s, h, handle_execute_steal(u, p, pg, pl, n),
                             "InvalidRaidState")
           /\ s.raid_state.tag \in {"Idle", "Cooldown"} =>
                Rejected(s, h, handle_cancel_raid(u, p), "NotRaiding")

\* C5: an out-of-order raid operation is rejected without effect.  In the
\* later snapshot: lockTarget for another chain outside Choosing,
\* executeSteal outside Locked and cancelRaid in Idle or Cooldown each
\* return an error, change nothing but the recorded block height and send
\* nothing.
C5_OutOfOrderRejected ==
    \A p \in DOMAIN state : \A h \in {k \in Heights : BlockOk(p, k)} :
        LET s == state[p]
            u == update_block(s, h)
            Refused(o) == o.resp.kind = "Error" /\ o.msgs = <<>> /\ o.st = u
        IN /\ s.raid_state.tag # "Choosing" =>
                \A target \in Players \ {p} : \A c \in Commitments :
                    Refused(V2_lock_target(u, target, c))
           /\ s.raid_state.tag # "Locked" =>
                \A pg \in StealPages : \A pl \in StealPlots :
                    Refused(V2_handle_execute_steal(u, pg, pl))
           /\ s.raid_state.tag \in {"Idle", "Cooldown"} =>
                Refused(V2_cancel_raid(u))

\* In the snapshot of 20260119 cancelRaid in Searching, Choosing, Locked or
\* Executing succeeds with Cooldown{current + 2 * raid_cooldown_blocks}, and
\* fails with NotRaiding in Idle and Cooldown.
V1_CancelRaidPenalty ==
    \A p \in Players : \A h \in NextHeights(p) :
        LET s == state[p]
            o == handle_cancel_raid(update_block(s, h), p)
        IN IF s.raid_state.tag \in RaidingTags
           THEN /\ o.resp = Success
                /\ o.msgs = <<>>
                /\ o.st = [update_block(s, h) EXCEPT !.raid_state =
                              Cooldown(h + 2 * s.config.raid_cooldown_blocks)]
           ELSE Rejected(s, h, o, "NotRaiding")

\* C8: cancelRaid issued in Searching, Choosing, Locked or Executing
\* succeeds and sets Cooldown{current + 2 * raid_cooldown_blocks}; issued
\* in Idle or Cooldown it fails.  Stated of the later snapshot.
C8_CancelRaidPenalty ==
    \A p \in DOMAIN state : \A h \in {k \in Heights : BlockOk(p, k)} :
        LET s == state[p]
            o == V2_cancel_raid(update_block(s, h))
        IN IF s.raid_state.tag \in RaidingTags
           THEN /\ o.resp = Success
                /\ o.st.raid_state =
                       Cooldown(h + 2 * s.config.raid_cooldown_blocks)
           ELSE /\ o.resp.kind = "Error"
                /\ o.st.raid_state = s.raid_state

\* In the snapshot of 20260119 a StealOutcome executed while Executing
\* sets Cooldown{current + raid_cooldown_blocks} and credits amount_stolen
\* only on success; in any other raid state it changes nothing but the
\* recorded block height.
V1_StealOutcomeCloses ==
    \A p \in Players : \A h \in NextHeights(p) : \A m \in InFlight :
        (m.type = "StealOutcome" /\ m.to = p) =>
            LET s == state[p]
                o == handle_steal_outcome_message(update_block(s, h), m)
            IN IF s.raid_state.tag = "Executing"
               THEN /\ o.st.raid_state =
                           Cooldown(h + s.config.raid_cooldown_blocks)
                    /\ o.st.available_balance =
                           s.available_balance
                           + (IF m.success THEN m.amount_stolen ELSE 0)
               ELSE o.st = update_block(s, h)

\* C9: a StealOutcome processed while Executing moves the attacker to
\* Cooldown{current + raid_cooldown_blocks} and credits the amount only on
\* success; processed in any other raid state it changes neither the raid
\* state, the liquid balance nor the statistics.  Stated of the later
\* snapshot, whose StealOutcome message is StealResult.
C9_StealOutcomeCloses ==
    \A p \in DOMAIN state : \A h \in {k \in Heights : BlockOk(p, k)} :
    \A m \in V2Messages :
        m.type = "StealResult" =>
            LET s == state[p]
                t == V2_execute_message(update_block(s, h), m)
            IN IF s.raid_state.tag = "Executing"
               THEN /\ t.raid_state =
                           Cooldown(h + s.config.raid_cooldown_blocks)
                    /\ t.token_a_balance =
                           s.token_a_balance + (IF m.success THEN m.amount ELSE 0)
               ELSE /\ t.raid_state = s.raid_state
                    /\ t.token_a_balance = s.token_a_balance
                    /\ t.stats = s.stats

\* In the snapshot of 20260119132203 a TargetList changes the state only in
\* Searching{request_id} with the same request_id, to Choosing{targets,
\* current + target_lock_duration}.
V1_TargetListMatched ==
    \A p \in Players : \A h \in NextHeights(p) : \A m \in InFlight :
        (m.type = "TargetList" /\ m.to = p) =>
            LET s == state[p]
                u == update_block(s, h)
                o == handle_target_list_message(u, m)
            IN IF /\ s.raid_state.tag = "Searching"
                  /\ s.raid_state.request_id = m.request_id
               THEN o.st = [u EXCEPT !.raid_state =
                               Choosing(m.targets, h + s.config.target_lock_duration)]
               ELSE o.st = u

\* C13: a TargetList changes the player's state only if the player is in
\* Searching{request_id} and the message carries that request_id, and then
\* to Choosing{targets, current + target_lock_duration}; any other
\* TargetList leaves the state unchanged.  Stated of the TargetsResponse arm
\* of the later snapshot and of receive_targets of state.rs (20260119135058).
C13_TargetListMatched ==
    \A p \in DOMAIN state : \A h \in {k \in Heights : BlockOk(p, k)} :
    \A m \in V2Messages :
        m.type = "TargetsResponse" =>
            LET s == state[p]
                u == update_block(s, h)
                matched == /\ s.raid_state.tag = "Searching"
                           /\ s.raid_state.request_id = m.request_id
                chosen == [u EXCEPT !.raid_state =
                              Choosing(m.targets, h + TARGET_LOCK_DURATION)]
            IN /\ V2_execute_message(u, m) = IF matched THEN chosen ELSE u
               /\ receive_targets_20260119135058(u, m.targets, m.request_id).st
                     = IF matched THEN chosen ELSE u

\* In the snapshot of 20260119132203 a Locked or Executing player aims at
\* another chain; lockTarget naming the own chain fails with
\* CannotStealFromSelf, lockTarget in an unexpired Choosing naming a chain
\* outside the offered list fails, both without effect, and lockTarget
\* succeeds only for an offered chain.
V1_LockedTargetOffered ==
    \A p \in Players :
        LET s == state[p] IN
        /\ s.raid_state.tag \in {"Locked", "Executing"} =>
              s.raid_state.target_chain # p
        /\ \A h \in NextHeights(p) : \A target \in Players : \A c \in Commitments :
              LET o == handle_lock_target(update_block(s, h), p, target, c)
              IN /\ target = p => Rejected(s, h, o, "CannotStealFromSelf")
                 /\ (/\ s.raid_state.tag = "Choosing"
                     /\ h < s.raid_state.expires_at_block
                     /\ ~target_in_list(s.raid_state.targets, target))
                    => /\ o.resp.kind = "Error"
                       /\ o.st = update_block(s, h)
                 /\ o.resp.kind = "TargetLocked" =>
                       /\ s.raid_state.tag = "Choosing"
                       /\ target_in_list(s.raid_state.targets, target)
                       /\ target # p
                       /\ o.st.raid_state.target_chain = target

\* C14: a Locked or Executing player's target_chain differs from its own
\* chain and was offered in the Choosing state of the raid; lockTarget
\* naming the own chain, or a chain outside the offered list, fails and
\* leaves the raid state unchanged.  Stated of the later snapshot.
C14_LockedTargetOffered ==
    \A p \in DOMAIN state :
        LET s == state[p] IN
        /\ s.raid_state.tag \in {"Locked", "Executing"} =>
              s.raid_state.target_chain # p
        /\ \A h \in {k \in Heights : BlockOk(p, k)} :
           \A target \in Players : \A c \in Commitments :
              LET u == update_block(s, h)
                  o == V2_lock_target(u, target, c)
              IN /\ target = p => (o.resp.kind = "Error" /\ o.st = u)
                 /\ (/\ s.raid_state.tag = "Choosing"
                     /\ ~target_in_list(s.raid_state.targets, target))
                    => (o.resp.kind = "Error" /\ o.st = u)
                 /\ o.resp.kind = "TargetLocked" =>
                       /\ s.raid_state.tag = "Choosing"
                       /\ target_in_list(s.raid_state.targets, target)
                       /\ target # p

\* C23: on a network that delivers or bounces every message, a player in
\* Executing reaches Cooldown or Idle without issuing any operation, also
\* when the victim's handler fails on a missing plot.
C23_ExecutingEnds ==
    \A p \in Players :
        (state[p].raid_state.tag = "Executing")
            ~> (state[p].raid_state.tag \in {"Cooldown", "Idle"})

\* a raid that aimed at a plot index the victim does not have has ended in
\* Cooldown with the failure recorded
C23_Witness ==
    \E p \in Raiders :
        /\ state[p].raid_state.tag = "Cooldown"
        /\ state[p].stats.failed_steals > 0
        /\ \E i \in DOMAIN state[p].attack_log :
              state[p].attack_log[i].plot_id = MAX_PLOTS_PER_PAGE

\* the chains the registry offers to requester q asking for count targets
Offered(q, count) ==
    LET targets == get_random_targets(registry, q, count, {})
    IN {targets[i].chain_id : i \in DOMAIN targets}

\* C25: a player whose RequestTargets the registry has processed and whose
\* raid has not ended (it is in Choosing, Locked or Executing) is in the
\* registry's players_in_raid and is offered to no other requester.
C25_RaiderExcluded ==
    \A p \in Players :
        state[p].raid_state.tag \in {"Choosing", "Locked", "Executing"}
        => /\ p \in registry.players_in_raid
           /\ \A q \in Players \ {p} : \A count \in 1..Cardinality(Players) :
                 p \notin Offered(q, count)

\* the list get_random_targets returns for (requester, count, exclude) has at
\* most count entries, all for distinct registered active players, none of
\* them the requester, in exclude or in players_in_raid
WellFormedTargets(requester, count, exclude) ==
    LET targets == get_random_targets(registry, requester, count, exclude)
    IN /\ Len(targets) <= count
       /\ \A i, j \in DOMAIN targets :
             targets[i].chain_id = targets[j].chain_id => i = j
       /\ \A i \in DOMAIN targets :
             /\ targets[i].chain_id \in DOMAIN registry.players
             /\ targets[i].chain_id \in registry.active_players
             /\ registry.players[targets[i].chain_id].is_active
             /\ targets[i].chain_id # requester
             /\ targets[i].chain_id \notin exclude
             /\ targets[i].chain_id \notin registry.players_in_raid

\* For a count of at least 1 the list is well formed.
V1_TargetsWellFormed ==
    \A requester \in Players : \A count \in 1..(Cardinality(Players) + 1) :
    \A exclude \in SUBSET Players :
        WellFormedTargets(requester, count, exclude)

\* C26: the target list the registry returns for a request (requester,
\* count, exclude) has at most count entries, all for distinct registered
\* active players, and never contains the requester, a chain listed in
\* exclude, or a chain in players_in_raid.
C26_TargetsWellFormed ==
    \A requester \in Players : \A count \in 0..(Cardinality(Players) + 1) :
    \A exclude \in SUBSET Players :
        WellFormedTargets(requester, count, exclude)

\* C27: on the registry, a RegisterPlayer for a chain that already has an
\* entry is rejected with AlreadyRegistered and leaves the entry, the
\* active-player set and the player count unchanged; an UnregisterPlayer
\* removes the chain's entry and its membership in the active-player set.
C27_RegistryEntries ==
    \A m \in InFlight :
        /\ (m.type = "RegisterPlayer" /\ m.player_chain \in DOMAIN registry.players)
             => /\ register_player(registry, m.player_chain)
                     = Err(registry, "AlreadyRegistered")
                /\ handle_register_player_message(registry, m)
                     = Outcome(registry, NoResponse, <<>>)
        /\ m.type = "UnregisterPlayer"
             => LET o == handle_unregister_player_message(registry, m)
                IN /\ m.player_chain \notin DOMAIN o.st.players
                   /\ m.player_chain \notin o.st.active_players
                   /\ \A c \in DOMAIN registry.players \ {m.player_chain} :
                         /\ c \in DOMAIN o.st.players
                         /\ o.st.players[c] = registry.players[c]
                   /\ o.st.active_players \cup {m.player_chain}
                        = registry.active_players \cup {m.player_chain}

\* a second RegisterPlayer of a chain and its UnregisterPlayer are both on
\* their way to a registry that holds the chain's entry
C27_Witness ==
    \E m, u \in InFlight :
        /\ m.type = "RegisterPlayer" /\ u.type = "UnregisterPlayer"
        /\ m.player_chain = u.player_chain
        /\ m.player_chain \in DOMAIN registry.players
        /\ m.player_chain \in registry.active_players

\* handle_bounced_message, handed a RegisterPlayer, resets is_registered and
\* touches nothing else.
V1_BouncedRegistrationResets ==
    \A p \in Players : \A h \in NextHeights(p) :
        LET u == update_block(state[p], h)
            o == handle_bounced_message(u, Msg_RegisterPlayer(p, RegistryChain, p))
        IN o = Outcome([u EXCEPT !.is_registered = FALSE], NoResponse, <<>>)

C29_StolenFundsAdditive ==
    [][\A m \in InFlight :
          (m.type = "StolenFunds" /\ CopiesIn(m, network') < CopiesIn(m, network))
          => /\ state'[m.to] =
                   [state[m.to] EXCEPT
                       !.available_balance = @ + m.amount,
                       !.current_block = state'[m.to].current_block]
             /\ \A q \in Players \ {m.to} : state'[q] = state[q]
             /\ network' = receive(network, m)
             /\ registry' = registry]_vars

\* the StolenFunds reached a raider that is still Executing (its
\* StealOutcome is on its way) and was credited
C29_Witness ==
    \E p \in Raiders : \E m \in InFlight :
        /\ m.type = "StealOutcome" /\ m.to = p /\ m.success
        /\ state[p].raid_state.tag = "Executing"
        /\ state[p].available_balance = InitialBalance + m.amount_stolen
        /\ m.amount_stolen > 0

\* The later snapshot's StolenFunds arm adds the amount to token_a_balance
\* and changes nothing else.
V2_StolenFundsAdditive ==
    \A p \in DOMAIN state : \A h \in {k \in Heights : BlockOk(p, k)} :
    \A m \in {x \in V2Messages : x.type = "StolenFunds"} :
        LET u == update_block(state[p], h)
        IN V2_execute_message(u, m) = [u EXCEPT !.token_a_balance = @ + m.amount]

\* the pages and plots a commitment may name
CommitPages == 0..MaxPages
CommitPlots == 0..MAX_PLOTS_PER_PAGE

\* C31: verify(commit(page, plot, nonce), page, plot, nonce) is true; the
\* commitment hash does not depend on the block passed to commit; verify is
\* false when page, plot or nonce differs from the committed values; and
\* execute_steal on a live lock rejects with InvalidCommitment exactly the
\* reveals that differ from the commitment locked.
C31_CommitReveal ==
    /\ \A pg \in CommitPages : \A pl \in CommitPlots : \A n \in Nonces :
       \A b \in Heights :
          LET c == StealCommitment_new(pg, pl, n, b)
          IN /\ StealCommitment_verify(c, pg, pl, n)
             /\ c = StealCommitment_new(pg, pl, n, 0)
             /\ \A pg2 \in CommitPages : \A pl2 \in CommitPlots : \A n2 \in Nonces :
                   <<pg2, pl2, n2>> # <<pg, pl, n>>
                   => ~StealCommitment_verify(c, pg2, pl2, n2)
    /\ \A p \in Players : \A h \in NextHeights(p) :
       \A pg \in CommitPages : \A pl \in CommitPlots : \A n \in Nonces :
          LET s == update_block(state[p], h)
              r == execute_steal(s, pg, pl, n)
          IN (s.raid_state.tag = "Locked" /\ h < s.raid_state.expires_at_block)
             => /\ r.ok = StealCommitment_verify(s.raid_state.commitment, pg, pl, n)
                /\ ~r.ok => r.err = "InvalidCommitment"

\* a raider holds a live lock whose commitment one of the reveals opens
C31_Witness ==
    \E p \in Raiders : \E pg \in CommitPages : \E pl \in CommitPlots :
    \E n \in Nonces :
        /\ state[p].raid_state.tag = "Locked"
        /\ state[p].current_block < state[p].raid_state.expires_at_block
        /\ StealCommitment_verify(state[p].raid_state.commitment, pg, pl, n)

\* the TargetList or TargetsResponse messages among sent that answer the
\* RequestTargets m
AnswersTo(sent, m) ==
    {i \in DOMAIN sent :
        /\ sent[i].type \in {"TargetList", "TargetsResponse"}
        /\ sent[i].request_id = m.request_id}

\* In the snapshot of 20260119132308 the registry answers every
\* RequestTargets with one TargetList, sent to the requester with the
\* request_id of the request, and nothing else.
V1_RequestAnswered ==
    \A m \in {x \in InFlight : x.type = "RequestTargets"} :
        LET o == handle_request_targets_message(registry, RegistryChain, m)
        IN /\ Len(o.msgs) = 1
           /\ AnswersTo(o.msgs, m) = {1}
           /\ o.msgs[1].to = m.requester
           /\ o.msgs[1].requester = m.requester

\* In that snapshot a delivered message takes a player out of Searching only
\* into Choosing.
V1_SearchingToChoosing ==
    [][\A p \in Players :
          (/\ state[p].raid_state.tag = "Searching"
           /\ state'[p].raid_state.tag # "Searching"
           /\ BagCardinality(network') <= BagCardinality(network)
           /\ network' # network)
          => state'[p].raid_state.tag = "Choosing"]_vars

\* In that snapshot, when every message is eventually delivered, a player in
\* Searching leaves it: by the TargetList, or by an operation of its own.
V1_SearchingEnds ==
    \A p \in Raiders :
        (state[p].raid_state.tag = "Searching")
            ~> (state[p].raid_state.tag # "Searching")

\* C34: for every RequestTargets processed exactly one TargetList with the
\* same request_id is sent back to the requester.  Stated of the later
\* snapshot, for every RequestTargets that can be handed to the chain.
C34_RequestAnswered ==
    \A v \in DOMAIN state : \A h \in NextHeights(v) :
    \A m \in {x \in V2Messages : x.type = "RequestTargets"} :
        LET sent == V2_execute_message_sends(update_block(state[v], h), m)
        IN Cardinality(AnswersTo(sent, m)) = 1

\* C36: when no message is in flight, the registry holds an entry for a
\* player exactly when the player's is_registered is true, whatever the
\* interleaving, the delivery order and the fate of the RegisterPlayer and
\* UnregisterPlayer messages were.
C36_RegistryMatchesPlayers ==
    network = EmptyBag
    => \A p \in Players :
          (p \in DOMAIN registry.players) <=> state[p].is_registered

\* C37: an operation that returns Error because no registry chain is
\* configured has no effect: a findTargets so refused leaves the raid state
\* and the request counter unchanged, and a register so refused leaves
\* is_registered false and creates no page.
C37_UnconfiguredNoEffect ==
    \A p \in Players : \A h \in NextHeights(p) : \A count \in Counts :
        LET s == state[p]
            r == handle_register(update_block(s, h), p)
            f == handle_find_targets(update_block(s, h), p, count)
        IN /\ r.resp = ErrorResponse("No registry configured")
                => /\ ~r.st.is_registered
                   /\ r.st.pages = s.pages
                   /\ r.st.page_count = s.page_count
                   /\ r.msgs = <<>>
           /\ f.resp = ErrorResponse("No registry configured")
                => /\ f.st.raid_state = s.raid_state
                   /\ f.st.request_counter = s.request_counter
                   /\ f.msgs = <<>>

\* the same of findTargets alone
UnconfiguredFindTargetsNoEffect ==
    \A p \in Players : \A h \in NextHeights(p) : \A count \in Counts :
        LET f == handle_find_targets(update_block(state[p], h), p, count)
        IN f.resp = ErrorResponse("No registry configured")
           => /\ f.st.raid_state = state[p].raid_state
              /\ f.st.request_counter = state[p].request_counter

\* C40: on the registry, player_count equals the number of RegistryEntry
\* records and the size of the active-player set, whatever RegisterPlayer and
\* UnregisterPlayer messages it has processed, an UnregisterPlayer for a
\* chain with no entry included.
C40_PlayerCount ==
    /\ registry.player_count = Cardinality(DOMAIN registry.players)
    /\ registry.player_count = Cardinality(registry.active_players)

\* The entries and the active-player set themselves stay in step.
RegistryEntriesActive == DOMAIN registry.players = registry.active_players

(***************************************************************************)
(* Properties of the stake ledger (SpecLedger)                             *)
(***************************************************************************)
\* the sum of the plot balances of all pages of s
StakedTotal(s) ==
    LET RECURSIVE sum(_)
        sum(ids) == IF ids = {} THEN 0
                    ELSE LET id == CHOOSE x \in ids : TRUE
                         IN total_balance(s.pages[id]) + sum(ids \ {id})
    IN sum(DOMAIN s.pages)

\* C10: for a player that takes part in no raid, after any sequence of
\* deposit, withdraw, claim and claimAll operations, liquid balance + sum
\* of all plot balances = initial balance + total_yield_earned.
C10_LedgerConserved ==
    \A p \in Stakers :
        state[p].available_balance + StakedTotal(state[p])
            = InitialBalance + state[p].stats.total_yield_earned

\* the amounts a deposit is tried with: below min_deposit, affordable at
\* first, and more than a chain ever holds
TriedDeposits == LedgerDeposits \cup {2 * InitialBalance}

\* deposit(page_id, plot_id, amount) must fail on a chain with the liquid
\* balance available, the pages pages and the configuration config
MustRejectDeposit(available, pages, config, page_id, plot_id, amount) ==
    \/ amount < config.min_deposit
    \/ available < amount
    \/ page_id \notin DOMAIN pages
    \/ plot_id >= MAX_PLOTS_PER_PAGE

\* In the snapshot of 20260119132203 a deposit by a registered player that
\* must fail returns InsufficientBalance, InvalidPageId or InvalidPlotId (the
\* first that applies, in this order) and changes nothing; an unregistered
\* player is answered NotRegistered.
V1_DepositRejected ==
    \A p \in Players : \A h \in NextHeights(p) :
    \A pg \in LedgerPages : \A pl \in LedgerPlots : \A a \in TriedDeposits :
        LET s == state[p]
            o == handle_deposit(update_block(s, h), p, pg, pl, a)
        IN MustRejectDeposit(s.available_balance, s.pages, s.config, pg, pl, a)
           => Rejected(s, h, o,
                  IF ~s.is_registered THEN "NotRegistered"
                  ELSE IF a < s.config.min_deposit \/ s.available_balance < a
                  THEN "InsufficientBalance"
                  ELSE IF pg \notin DOMAIN s.pages THEN "InvalidPageId"
                  ELSE "InvalidPlotId")

\* C17: deposit fails, changing no balance, plot or statistic, when the
\* amount is below config.min_deposit or above the liquid balance, when the
\* page does not exist, or when the plot index is out of range.  Stated of
\* the later snapshot.
C17_DepositRejected ==
    \A p \in DOMAIN state : \A h \in {k \in Heights : BlockOk(p, k)} :
    \A pg \in LedgerPages : \A pl \in LedgerPlots : \A a \in TriedDeposits :
        LET s == state[p]
            u == update_block(s, h)
            o == V2_handle_deposit(u, pg, pl, a)
        IN MustRejectDeposit(s.token_a_balance, s.pages, s.config, pg, pl, a)
           => (o.resp.kind = "Error" /\ o.st = u)

\* C18: a successful deposit of a on a plot holding b with pending yield y
\* leaves the plot active with balance b + a and last_claim_block at the
\* current block, returns b + a, adds a to total_deposited and y to
\* total_yield_earned, and sets the liquid balance to previous + y - a.
C18_DepositApplied ==
    \A p \in Players : \A h \in NextHeights(p) :
    \A pg \in LedgerPages : \A pl \in LedgerPlots : \A a \in TriedDeposits :
        LET s == state[p]
            o == handle_deposit(update_block(s, h), p, pg, pl, a)
        IN o.resp.kind = "Deposited" =>
             LET plot == s.pages[pg].plots[pl]
                 b == plot.balance
                 y == calculate_yield(plot, h, s.config.yield_rate_bps)
                 after == o.st.pages[pg].plots[pl]
             IN /\ after.is_active
                /\ after.balance = b + a
                /\ after.last_claim_block = h
                /\ o.resp.new_balance = b + a
                /\ o.st.stats.total_deposited = s.stats.total_deposited + a
                /\ o.st.stats.total_yield_earned = s.stats.total_yield_earned + y
                /\ o.st.available_balance = s.available_balance + y - a

\* the amounts a withdrawal is tried with: part of a stake, a whole stake,
\* and more than a plot ever holds
TriedWithdrawals == {InitialBalance \div 4} \cup TriedDeposits

\* In the snapshot of 20260119132203 a withdrawal of a from an active plot
\* holding b fails with InsufficientBalance and no change when a > b, and
\* otherwise leaves the plot at b - a, pays a plus the pending yield,
\* restarts the yield clock, adds a to total_withdrawn and deactivates the
\* plot exactly when it is emptied.
V1_WithdrawApplied ==
    \A p \in Players : \A h \in NextHeights(p) :
    \A pg \in DOMAIN state[p].pages : \A pl \in 0..(MAX_PLOTS_PER_PAGE - 1) :
    \A a \in TriedWithdrawals :
        LET s == state[p]
            plot == s.pages[pg].plots[pl]
            b == plot.balance
            y == calculate_yield(plot, h, s.config.yield_rate_bps)
            o == handle_withdraw(update_block(s, h), p, pg, pl, a)
            after == o.st.pages[pg].plots[pl]
        IN (s.is_registered /\ plot.is_active) =>
             IF a > b THEN Rejected(s, h, o, "InsufficientBalance")
             ELSE /\ o.resp.kind = "Withdrawn"
                  /\ after.balance = b - a
                  /\ o.st.available_balance = s.available_balance + a + y
                  /\ after.last_claim_block = h
                  /\ o.st.stats.total_withdrawn = s.stats.total_withdrawn + a
                  /\ after.is_active = (b - a # 0)

\* C19: withdraw of a from a plot holding b: when a > b it fails and changes
\* nothing; otherwise the plot holds b - a, the liquid balance grows by a
\* plus the pending yield, last_claim_block is the current block,
\* total_withdrawn grows by a, and the plot is deactivated exactly when
\* b - a = 0.  Stated of the later snapshot.
C19_WithdrawApplied ==
    \A p \in DOMAIN state : \A h \in {k \in Heights : BlockOk(p, k)} :
    \A pg \in DOMAIN state[p].pages : \A pl \in 0..(MAX_PLOTS_PER_PAGE - 1) :
    \A a \in TriedWithdrawals :
        LET s == state[p]
            u == update_block(s, h)
            plot == s.pages[pg].plots[pl]
            b == plot.token_a_balance
            y == V2_calculate_token_a_yield(plot, h, s.config.yield_rate_bps)
            o == V2_handle_withdraw(u, pg, pl, a)
            after == o.st.pages[pg].plots[pl]
        IN plot.is_active =>
             IF a > b THEN o.resp.kind = "Error" /\ o.st = u
             ELSE /\ o.resp.kind = "Withdrawn"
                  /\ after.token_a_balance = b - a
                  /\ o.st.token_a_balance = s.token_a_balance + a + y
                  /\ after.last_claim_block = h
                  /\ o.st.stats.total_withdrawn = s.stats.total_withdrawn + a
                  /\ after.is_active = (b - a # 0)

\* plots calculate_yield is tried on: inactive and active, empty, staked, and
\* so large that the product saturates
YieldBalances == {0, 1, InitialBalance \div 2, InitialBalance, U128_MAX \div 3, U128_MAX}
YieldRates == {0, 1, BASE_YIELD_RATE_BPS, YIELD_DIVISOR}
YieldPlots ==
    [is_active : BOOLEAN, balance : YieldBalances, last_claim_block : Heights]

\* a * b does not fit in a u128
Overflows(a, b) == a # 0 /\ b > U128_MAX \div a

\* floor(min(balance * blocksElapsed * rate, u128::MAX) / 1_000_000)
CappedYield(balance, blocksElapsed, rate) ==
    IF rate = 0 \/ blocksElapsed = 0 THEN 0
    ELSE IF Overflows(balance, blocksElapsed)
            \/ Overflows(balance * blocksElapsed, rate)
    THEN U128_MAX \div YIELD_DIVISOR
    ELSE (balance * blocksElapsed * rate) \div YIELD_DIVISOR

\* the plots calculate_yield meets: the tried ones and those of the players
MetPlots ==
    YieldPlots \cup
    {[is_active |-> state[p].pages[pg].plots[pl].is_active,
      balance |-> state[p].pages[pg].plots[pl].balance,
      last_claim_block |-> state[p].pages[pg].plots[pl].last_claim_block] :
         <<p, pg, pl>> \in {x \in Players \X (0..MaxPages) \X (0..(MAX_PLOTS_PER_PAGE - 1)) :
                              x[2] \in DOMAIN state[x[1]].pages}}

\* C21: calculate_yield(currentBlock, rate) is 0 for an inactive plot, an
\* empty plot and currentBlock <= last_claim_block; otherwise it is
\* floor(min(balance * blocksElapsed * rate, 2^128 - 1) / 1_000_000) with
\* blocksElapsed = currentBlock - last_claim_block; and it is non-decreasing
\* in currentBlock for a fixed balance and rate.
C21_YieldFormula ==
    \A plot \in MetPlots : \A rate \in YieldRates : \A c \in Heights :
        LET y == calculate_yield(plot, c, rate)
        IN /\ (~plot.is_active \/ plot.balance = 0 \/ c <= plot.last_claim_block)
                => y = 0
           /\ (plot.is_active /\ plot.balance # 0 /\ c > plot.last_claim_block)
                => y = CappedYield(plot.balance, c - plot.last_claim_block, rate)
           /\ \A d \in Heights : c <= d => y <= calculate_yield(plot, d, rate)

\* a player's plot on which yield is pending
C21_Witness ==
    \E p \in Players : \E pg \in DOMAIN state[p].pages :
    \E pl \in DOMAIN state[p].pages[pg].plots :
        /\ state[p].current_block > state[p].pages[pg].plots[pl].last_claim_block
        /\ calculate_yield(state[p].pages[pg].plots[pl], state[p].current_block,
                           state[p].config.yield_rate_bps) > 0

\* the active plots of s, as (page, plot) pairs
ActivePlots(s) ==
    {x \in (DOMAIN s.pages) \X (0..(MAX_PLOTS_PER_PAGE - 1)) :
        s.pages[x[1]].plots[x[2]].is_active}

\* the sum over the active plots of s of what claim returns for each
ClaimedOneByOne(s) ==
    LET RECURSIVE sum(_)
        sum(xs) == IF xs = {} THEN 0
                   ELSE LET x == CHOOSE y \in xs : TRUE
                        IN claim(s, x[1], x[2]).val + sum(xs \ {x})
    IN sum(ActivePlots(s))

AttemptsOn(v) == {m \in InFlight : m.type = "StealAttempt" /\ m.to = v}

\* the plot a StealAttempt aims at can be stolen from: it exists, is active,
\* holds a balance and is not protected
Stealable(s, m) ==
    /\ m.target_page \in DOMAIN s.pages
    /\ m.target_plot < MAX_PLOTS_PER_PAGE
    /\ s.pages[m.target_page].plots[m.target_plot].is_active
    /\ s.pages[m.target_page].plots[m.target_plot].balance > 0
    /\ ~s.pages[m.target_page].plots[m.target_plot].is_protected

\* C11: when a StealAttempt succeeds against an active plot with balance b,
\* the stolen amount is floor(b * steal_percentage / 100); the plot balance
\* becomes b minus that amount, total_lost_to_theft grows by that amount and
\* times_been_robbed by one; the StealOutcome sent to the attacker carries
\* that amount, and so does the StolenFunds, which is sent when the amount
\* is positive.
C11_StealAmount ==
    \A v \in Players : \A m \in AttemptsOn(v) : \A h \in NextHeights(v) :
    \A roll \in Rolls :
        (Stealable(state[v], m) /\ roll < state[v].config.steal_success_rate)
        => LET s == state[v]
               b == s.pages[m.target_page].plots[m.target_plot].balance
               stolen == (b * s.config.steal_percentage) \div 100
               o == handle_steal_attempt_message(update_block(s, h), v, m, roll)
               funds == {i \in DOMAIN o.msgs : o.msgs[i].type = "StolenFunds"}
           IN /\ o.st.pages[m.target_page].plots[m.target_plot].balance = b - stolen
              /\ o.st.stats.total_lost_to_theft = s.stats.total_lost_to_theft + stolen
              /\ o.st.stats.times_been_robbed = s.stats.times_been_robbed + 1
              /\ o.msgs[1].type = "StealOutcome"
              /\ o.msgs[1].to = m.attacker_chain
              /\ o.msgs[1].success
              /\ o.msgs[1].amount_stolen = stolen
              /\ \A i \in funds : /\ o.msgs[i].amount = stolen
                                  /\ o.msgs[i].to = m.attacker_chain
              /\ Cardinality(funds) = IF stolen > 0 THEN 1 ELSE 0

\* a plot was robbed of a positive amount and the StolenFunds carrying the
\* amount is on its way to the attacker
C11_Witness ==
    \E v \in Players : \E m \in InFlight :
        /\ m.type = "StolenFunds" /\ m.from = v
        /\ state[v].stats.times_been_robbed = 1
        /\ m.amount = state[v].stats.total_lost_to_theft
        /\ m.amount = (InitialBalance * STEAL_PERCENTAGE) \div 100

\* the StealAttempts on their way to v, and the same attempts aimed at a
\* page or plot that v does not have
AttemptsAt(v) ==
    {[m EXCEPT !.target_page = pg, !.target_plot = pl] :
        m \in AttemptsOn(v), pg \in LedgerPages, pl \in LedgerPlots}

\* In the snapshot of 20260119 the victim answers every StealAttempt with one
\* StealOutcome to the attacker chain named in it (success = false, amount 0
\* when the page or plot is missing or the plot is empty), and with a
\* StolenFunds exactly when the steal succeeded with a positive amount.
V1_StealAttemptAnswered ==
    \A v \in Players : \A m \in AttemptsAt(v) : \A h \in NextHeights(v) :
    \A roll \in Rolls :
        LET s == state[v]
            o == handle_steal_attempt_message(update_block(s, h), v, m, roll)
            outcomes == {i \in DOMAIN o.msgs : o.msgs[i].type = "StealOutcome"}
            funds == {i \in DOMAIN o.msgs : o.msgs[i].type = "StolenFunds"}
        IN /\ Cardinality(outcomes) = 1
           /\ DOMAIN o.msgs = outcomes \cup funds
           /\ \A i \in outcomes :
                 /\ o.msgs[i].to = m.attacker_chain
                 /\ ~Stealable(s, m)
                      => (~o.msgs[i].success /\ o.msgs[i].amount_stolen = 0)
                 /\ Cardinality(funds) =
                      IF o.msgs[i].success /\ o.msgs[i].amount_stolen > 0
                      THEN 1 ELSE 0

\* C22: a victim that processes a delivered StealAttempt sends one
\* StealOutcome to the attacker chain named in the attempt.  Stated of the
\* later snapshot, where a processed attempt is counted in times_raided.
C22_StealAttemptAnswered ==
    [][\A v \in DOMAIN state :
          state'[v].stats.times_raided > state[v].stats.times_raided
          => \E m \in BagToSet(network') :
                /\ m.type \in {"StealOutcome", "StealResult"}
                /\ CopiesIn(m, network') > CopiesIn(m, network)]_vars

\* the states victim v can be in when a StealAttempt already in flight
\* reaches it at height h: as it is, or after one more withdrawal or deposit
\* on the targeted plot
BeforeDelivery(v, h) ==
    LET u == update_block(state[v], h)
    IN {u} \cup {handle_withdraw(u, v, 0, 0, a).st : a \in VictimWithdrawals}
           \cup {handle_deposit(u, v, 0, 0, a).st : a \in Deposits}

\* C24: the stolen amount is computed from the plot's balance when the victim
\* processes the StealAttempt: a deposit or withdrawal made while the
\* attempt is in flight changes the amount accordingly, and a plot emptied
\* before delivery yields success = false with amount 0.
C24_BalanceAtDelivery ==
    \A v \in Players : \A m \in AttemptsOn(v) : \A h \in NextHeights(v) :
    \A roll \in Rolls : \A s \in BeforeDelivery(v, h) :
        LET o == handle_steal_attempt_message(s, v, m, roll)
            success == Stealable(s, m) /\ roll < s.config.steal_success_rate
            b == IF Stealable(s, m)
                 THEN s.pages[m.target_page].plots[m.target_plot].balance
                 ELSE 0
            amount == IF success THEN (b * s.config.steal_percentage) \div 100
                      ELSE 0
        IN /\ o.msgs[1].type = "StealOutcome"
           /\ o.msgs[1].success = success
           /\ o.msgs[1].amount_stolen = amount
           /\ Stealable(s, m) =>
                 o.st.pages[m.target_page].plots[m.target_plot].balance = b - amount

\* a StealAttempt is in flight towards a victim whose targeted plot holds the
\* whole stake, which the victim can still withdraw before delivery
C24_Witness ==
    \E v \in Players : \E m \in AttemptsOn(v) :
        /\ Stealable(state[v], m)
        /\ state[v].pages[m.target_page].plots[m.target_plot].balance = InitialBalance
        /\ \E s \in BeforeDelivery(v, state[v].current_block) : ~Stealable(s, m)

\* C20: after any sequence of page creations, deposits, withdrawals, claims
\* and steal attempts, every plot with balance 0 is inactive.
C20_EmptyPlotInactive ==
    \A p \in Players : \A pg \in DOMAIN state[p].pages :
    \A pl \in DOMAIN state[p].pages[pg].plots :
        state[p].pages[pg].plots[pl].balance = 0
            => ~state[p].pages[pg].plots[pl].is_active

\* a victim that has created a second page, has been robbed, and has then
\* emptied the plot by a withdrawal
C20_Witness ==
    \E p \in Stakers :
        /\ state[p].page_count = 2
        /\ state[p].stats.times_been_robbed > 0
        /\ state[p].stats.total_withdrawn > 0
        /\ state[p].pages[0].plots[0].balance = 0
        /\ ~state[p].pages[0].plots[0].is_active

\* chain v, in state s, after k more StealAttempts by chain a on its plot
\* (0, 0) were delivered to it, each with a roll that fails (an attempt that
\* leaves the log empty changed nothing, and neither do the next ones)
Suffered(s, v, a, k) ==
    LET attempt == Msg_StealAttempt(a, v, a, 0, 0, AttackSeed(<<>>, 0, "n1"))
        RECURSIVE after(_, _)
        after(u, n) ==
            IF n = 0 THEN u
            ELSE LET w == handle_steal_attempt_message(u, v, attempt,
                                                       STEAL_SUCCESS_RATE).st
                 IN IF Len(w.attack_log) > 0 THEN after(w, n - 1) ELSE w
    IN after(s, k)

\* chain p at height h with its plot (0, 0) staked
Staked(p, h) ==
    LET u == update_block(state[p], h)
    IN IF Stealable(u, [target_page |-> 0, target_plot |-> 0]) THEN u
       ELSE handle_deposit(u, p, 0, 0, u.available_balance).st

\* The victim's side keeps the log within its capacity: a staked chain that
\* suffers k more StealAttempts has k more entries, and never more than 50.
V1_VictimLogBounded ==
    \A p \in Players : \A h \in NextHeights(p) : \A a \in Players \ {p} :
    \A k \in {1, ATTACK_LOG_CAPACITY, ATTACK_LOG_CAPACITY + 1} :
        LET s == Suffered(Staked(p, h), p, a, k)
        IN Stealable(Staked(p, h), [target_page |-> 0, target_plot |-> 0])
           => Len(s.attack_log) =
                IF Len(state[p].attack_log) + k <= ATTACK_LOG_CAPACITY
                THEN Len(state[p].attack_log) + k ELSE ATTACK_LOG_CAPACITY

\* C30: the attack log of a chain holds at most 50 entries in every state:
\* each append, by processStealAttempt on the victim's side and by
\* processStealOutcome on the attacker's side, evicts the oldest entries
\* beyond the capacity.  Checked in the reachable states and in those that
\* follow them when the chain stakes its plot, suffers up to 50 failed
\* StealAttempts and then receives the StealOutcome of its own raid.
C30_AttackLogBounded ==
    \A p \in Players :
        /\ Len(state[p].attack_log) <= ATTACK_LOG_CAPACITY
        /\ \A h \in NextHeights(p) : \A a \in Players \ {p} :
           \A k \in {0, ATTACK_LOG_CAPACITY} :
           \A m \in {x \in InFlight : x.type = "StealOutcome" /\ x.to = p} :
               LET s == Suffered(Staked(p, h), p, a, k)
                   o == handle_steal_outcome_message(s, m)
               IN /\ Len(s.attack_log) <= ATTACK_LOG_CAPACITY
                  /\ Len(o.st.attack_log) <= ATTACK_LOG_CAPACITY

\* the plot a StealAttempt aims at exists and is inactive or empty
DeadPlot(s, m) ==
    /\ m.target_page \in DOMAIN s.pages
    /\ m.target_plot < MAX_PLOTS_PER_PAGE
    /\ \/ ~s.pages[m.target_page].plots[m.target_plot].is_active
       \/ s.pages[m.target_page].plots[m.target_plot].balance = 0

\* In the snapshot of 20260119 a StealAttempt on an inactive or empty plot is
\* answered with success = false and amount 0 and leaves the victim's pages,
\* statistics, liquid balance, raid state and log as they were.
V1_DeadPlotUntouched ==
    \A v \in Players : \A m \in AttemptsOn(v) : \A h \in NextHeights(v) :
    \A roll \in Rolls :
        DeadPlot(state[v], m)
        => LET s == state[v]
               o == handle_steal_attempt_message(update_block(s, h), v, m, roll)
           IN /\ Len(o.msgs) = 1
              /\ o.msgs[1].type = "StealOutcome"
              /\ o.msgs[1].to = m.attacker_chain
              /\ ~o.msgs[1].success
              /\ o.msgs[1].amount_stolen = 0
              /\ o.st.pages = s.pages
              /\ o.st.stats = s.stats
              /\ o.st.available_balance = s.available_balance
              /\ o.st.raid_state = s.raid_state
              /\ o.st.attack_log = s.attack_log

\* a StealAttempt is on its way to a plot that its owner has emptied
V1_DeadPlotAttempted ==
    \E v \in Players : \E m \in AttemptsOn(v) :
        /\ DeadPlot(state[v], m)
        /\ state[v].stats.total_withdrawn > 0

\* C32: a StealAttempt on a plot that holds no balance leaves the victim's
\* pages, statistics, liquid balance and raid state unchanged.  Stated of the
\* later snapshot, for every StealAttempt that can be handed to the chain.
C32_DeadPlotUntouched ==
    \A v \in DOMAIN state : \A h \in NextHeights(v) :
    \A m \in {x \in V2Messages : x.type = "StealAttempt"} :
        LET s == state[v]
            t == V2_execute_message(update_block(s, h), m)
        IN (/\ m.target_page \in DOMAIN s.pages
            /\ m.target_plot < MAX_PLOTS_PER_PAGE
            /\ s.pages[m.target_page].plots[m.target_plot].token_a_balance = 0)
           => /\ t.pages = s.pages
              /\ t.stats = s.stats
              /\ t.token_a_balance = s.token_a_balance
              /\ t.raid_state = s.raid_state

\* chain p once the cooldown of its cancelled raid is over and it has raided
\* again as far as Executing: findTargets, the registry's TargetList,
\* lockTarget on the first chain offered and executeSteal on its plot (0, 0).
\* A step that is refused leaves the raid short of Executing.
RaidingAgain(p) ==
    LET s0 == update_block(state[p], state[p].raid_state.until_block)
        f == handle_find_targets(s0, p, 1)
        a == IF Len(f.msgs) = 1
             THEN handle_request_targets_message(registry, RegistryChain, f.msgs[1]).msgs
             ELSE <<>>
        s1 == IF Len(a) = 1 THEN handle_target_list_message(f.st, a[1]).st ELSE f.st
        v == IF s1.raid_state.tag = "Choosing" /\ Len(s1.raid_state.targets) > 0
             THEN s1.raid_state.targets[1].chain_id ELSE p
        s2 == handle_lock_target(s1, p, v, StealCommitment_new(0, 0, "n1", 0)).st
    IN handle_execute_steal(s2, p, 0, 0, "n1").st

\* C35: a StealOutcome for an earlier cancelled raid is never applied to, and
\* never ends, a later raid in Executing for a different attempt: when the
\* outcome of a raid that its attacker has cancelled is delivered after the
\* attacker has started its next raid, the attacker's raid state, statistics,
\* liquid balance and log stay as they are.
C35_StaleOutcomeIgnored ==
    \A p \in Raiders :
    \A m \in {x \in InFlight : x.type = "StealOutcome" /\ x.to = p} :
        (/\ state[p].raid_state.tag = "Cooldown"
         /\ RaidingAgain(p).raid_state.tag = "Executing")
        => LET s == RaidingAgain(p)
               t == handle_steal_outcome_message(s, m).st
           IN /\ t.raid_state = s.raid_state
              /\ t.stats = s.stats
              /\ t.available_balance = s.available_balance
              /\ t.attack_log = s.attack_log

\* a chain other than the players, raiding the same plot
Outsider == Cardinality(Players) + 1

\* the StealAttempt m as the outsider would have sent it
FromOutsider(m) == [m EXCEPT !.from = Outsider, !.attacker_chain = Outsider]

\* the balance of the plot m aims at, 0 when the victim has no such plot
TargetBalance(s, m) ==
    IF m.target_page \in DOMAIN s.pages /\ m.target_plot < MAX_PLOTS_PER_PAGE
    THEN s.pages[m.target_page].plots[m.target_plot].balance
    ELSE 0

\* the StealAttempts first and then second of two attackers on one plot of
\* v are resolved in that order: each outcome goes to its own attacker, the
\* second amount is computed from the balance the first left, the balance
\* stays at or above zero and the plot and total_lost_to_theft have changed
\* by the sum of the two amounts reported
ResolvedInOrder(v, first, second, h1, h2, roll1, roll2) ==
    LET s0 == update_block(state[v], h1)
        o1 == handle_steal_attempt_message(s0, v, first, roll1)
        s1 == update_block(o1.st, h2)
        o2 == handle_steal_attempt_message(s1, v, second, roll2)
        b0 == TargetBalance(s0, first)
        b1 == TargetBalance(s1, first)
        b2 == TargetBalance(o2.st, first)
        amount(s, m, roll) ==
            IF Stealable(s, m) /\ roll < s.config.steal_success_rate
            THEN (TargetBalance(s, m) * s.config.steal_percentage) \div 100
            ELSE 0
    IN /\ o1.msgs[1].type = "StealOutcome" /\ o2.msgs[1].type = "StealOutcome"
       /\ o1.msgs[1].to = first.attacker_chain
       /\ o2.msgs[1].to = second.attacker_chain
       /\ o1.msgs[1].amount_stolen = amount(s0, first, roll1)
       /\ o2.msgs[1].amount_stolen = amount(s1, second, roll2)
       /\ b1 = b0 - o1.msgs[1].amount_stolen
       /\ b2 >= 0
       /\ b0 - b2 = o1.msgs[1].amount_stolen + o2.msgs[1].amount_stolen
       /\ o2.st.stats.total_lost_to_theft - state[v].stats.total_lost_to_theft
            = o1.msgs[1].amount_stolen + o2.msgs[1].amount_stolen

\* C38: two StealAttempts from different attackers on the same plot are
\* resolved in delivery order, the second against the balance left by the
\* first; the balance never goes below zero, and the total deducted equals
\* the sum of the amounts in the two StealOutcomes, whichever is delivered
\* first.
C38_TwoAttackers ==
    \A v \in Players : \A m \in AttemptsOn(v) :
    \A h1 \in NextHeights(v) : \A h2 \in {h \in Heights : h >= h1} :
    \A roll1 \in Rolls : \A roll2 \in Rolls :
        /\ ResolvedInOrder(v, m, FromOutsider(m), h1, h2, roll1, roll2)
        /\ ResolvedInOrder(v, FromOutsider(m), m, h1, h2, roll1, roll2)

\* a StealAttempt is on its way to a funded plot on which a second attacker's
\* attempt would succeed as well, for a smaller amount
C38_Witness ==
    \E v \in Players : \E m \in AttemptsOn(v) :
        LET s == state[v]
            o1 == handle_steal_attempt_message(s, v, FromOutsider(m),
                                               STEAL_SUCCESS_RATE - 1)
            o2 == handle_steal_attempt_message(o1.st, v, m, STEAL_SUCCESS_RATE - 1)
        IN /\ Stealable(s, m)
           /\ o1.msgs[1].amount_stolen > o2.msgs[1].amount_stolen
           /\ o2.msgs[1].amount_stolen > 0
           /\ o1.msgs[1].to # o2.msgs[1].to

\* C39: in every reachable player state the sum of all plot balances equals
\* total_deposited - total_withdrawn - total_lost_to_theft.
C39_StakeAccounted ==
    \A p \in Players :
        StakedTotal(state[p])
            = state[p].stats.total_deposited - state[p].stats.total_withdrawn
                - state[p].stats.total_lost_to_theft

\* a player that has deposited, has been robbed and has withdrawn, and still
\* holds a stake
C39_Witness ==
    \E p \in Players :
        /\ state[p].stats.total_deposited > 0
        /\ state[p].stats.total_withdrawn > 0
        /\ state[p].stats.total_lost_to_theft > 0
        /\ StakedTotal(state[p]) > 0

====
